---- MODULE Spec2Model ----
(***************************************************************************)
(* Model of the asynchronous AI-processing pipeline of backend/server.py:  *)
(* the per-document extraction job, the batch reorder/process jobs, the    *)
(* quality-check job, their task records and the parsing of the AI reply,  *)
(* with the endpoints clients use next to them: the enqueue calls, the     *)
(* status polls, the document listing, rename_document, the dashboard      *)
(* counters and the download of a processed batch.  The progress           *)
(* arithmetic of the client-driven job is followed in double precision.    *)
(*                                                                         *)
(* Granularity: every `await` on the storage or on the AI client is one    *)
(* step.  The synchronous code that follows an await, up to the issue of   *)
(* the next one, touches only the job's locals and runs on a single event  *)
(* loop, so it is folded into the step of the await it follows.            *)
(* Storage operations are taken to succeed; the exceptions modelled are    *)
(* the ones the job bodies can raise themselves: a failing import of the   *)
(* LLM client package, a provider error of the AI call, an undecodable     *)
(* reply and a plan entry with a missing key.                              *)
(***************************************************************************)
EXTENDS Integers, Sequences, FiniteSets, TLC

\* ------------------------------------------------------------------ bounds
MaxLen == 4          \* longest reply text (in tokens) given to the parser
MaxDocs == 2         \* documents that can be uploaded
MaxTasks == 1        \* batch / quality-check jobs that can be enqueued
MaxRenames == 1      \* rename_document calls that can be made
MaxOverlap == 2      \* reorder jobs that run at the same time in the race scenario
MaxTotal == 50       \* most documents a client-driven job gathers in the progress scenario

DocIds == 1..MaxDocs
TaskIds == 1..MaxTasks
RenameIds == 1..MaxRenames
RaceIds == 1..MaxOverlap

\* ------------------------------------------------------- reply text tokens
\* A reply is a sequence of tokens.  "{" and "}" are the brace characters,
\* "m" is an object member with a scalar value, "d" is the member
\* "documents": [...], "k" is a member key that must be followed by an
\* object value, "x" is any text that is not JSON syntax.
Alphabet == {"{", "}", "m", "d", "k", "x"}
Texts == UNION {[1..n -> Alphabet] : n \in 0..MaxLen}
NoMatch == <<"<no match>">>

\* The pattern written non-greedy ( \{.*?\} ): the match stops at the first
\* closing brace.
MatchAtLazy(text, i) ==
    IF text[i] = "{" /\ \E j \in (i+1)..Len(text) : text[j] = "}"
    THEN CHOOSE j \in (i+1)..Len(text) :
            /\ text[j] = "}"
            /\ \A j2 \in (i+1)..(j-1) : text[j2] # "}"
    ELSE 0

\* Greedy attempt of the pattern \{.*\} anchored at position i: 0 when it
\* cannot match there, else the position of the last character matched.
MatchAt(text, i) ==
    IF text[i] = "{" /\ \E j \in (i+1)..Len(text) : text[j] = "}"
    THEN CHOOSE j \in (i+1)..Len(text) :
            /\ text[j] = "}"
            /\ \A j2 \in (j+1)..Len(text) : text[j2] # "}"
    ELSE 0

\* re.match in place of re.search: the pattern is tried at the start of the
\* text only.
re_match(text) ==
    IF Len(text) > 0 /\ MatchAt(text, 1) > 0
    THEN SubSeq(text, 1, MatchAt(text, 1))
    ELSE NoMatch

\* re.search(r'\{.*\}', text, re.DOTALL): the leftmost position at which the
\* pattern matches, with the greedy match taken there.
re_search(text) ==
    IF \E i \in 1..Len(text) : MatchAt(text, i) > 0
    THEN LET i == CHOOSE i \in 1..Len(text) :
                     /\ MatchAt(text, i) > 0
                     /\ \A i2 \in 1..(i-1) : MatchAt(text, i2) = 0
         IN  SubSeq(text, i, MatchAt(text, i))
    ELSE NoMatch

\* json.loads on a token sequence: an object is "{" member* "}", a member is
\* "m", "d" or "k" followed by an object.  ObjEnd gives the position of the
\* brace closing the object that opens at i, or 0 when there is no object.
RECURSIVE ObjEnd(_, _)
RECURSIVE MembersEnd(_, _)
ObjEnd(s, i) ==
    IF i > Len(s) \/ s[i] # "{" THEN 0 ELSE MembersEnd(s, i + 1)

MembersEnd(s, i) ==
    IF i > Len(s) THEN 0
    ELSE IF s[i] = "}" THEN i
    ELSE IF s[i] \in {"m", "d"} THEN MembersEnd(s, i + 1)
    ELSE IF s[i] = "k"
         THEN LET e == ObjEnd(s, i + 1)
              IN  IF e = 0 THEN 0 ELSE MembersEnd(s, e + 1)
    ELSE 0

\* Nesting depth of position i: braces opened minus braces closed before i.
Depth(s, i) ==
    Cardinality({j \in 1..(i-1) : s[j] = "{"})
      - Cardinality({j \in 1..(i-1) : s[j] = "}"})

KeyOf(tok) ==
    CASE tok = "m" -> "vendor"
      [] tok = "d" -> "documents"
      [] tok = "k" -> "meta"
      [] OTHER -> "?"

\* The keys of the decoded top-level object.
TopKeys(s) ==
    {KeyOf(s[i]) : i \in {j \in 1..Len(s) : Depth(s, j) = 1 /\ s[j] \in {"m", "d", "k"}}}

\* json.loads: ok = FALSE stands for json.JSONDecodeError (also raised for
\* data that follows the object).
json_loads(s) ==
    IF Len(s) > 0 /\ ObjEnd(s, 1) = Len(s)
    THEN [ok |-> TRUE, keys |-> TopKeys(s)]
    ELSE [ok |-> FALSE, keys |-> {}]

\* The values extracted_data can hold.
NoData == [kind |-> "unset"]
Structured(keys) == [kind |-> "map", keys |-> keys]
Degraded(text) == [kind |-> "map", keys |-> {"raw_response", "status"},
                   raw_response |-> text, status |-> "needs_review"]

\* Lines 428-439 of process_document_with_ai: the record stored for a reply.
ExtractData(response) ==
    LET json_match == re_search(response)
    IN  IF json_match # NoMatch
        THEN IF json_loads(json_match).ok
             THEN Structured(json_loads(json_match).keys)
             ELSE Degraded(response)
        ELSE Degraded(response)

\* ------------------------------------------------------------------- state
VARIABLES
    env,            \* the process environment: credential and installed packages
    docs,           \* db.documents
    docjob,         \* one process_document_with_ai job per uploaded document
    reorder_tasks,  \* db.reorder_tasks
    process_tasks,  \* db.process_tasks
    qa_tasks,       \* db.qa_tasks
    job,            \* one background job per issued task_id
    text,           \* a reply text handed to the parser
    parsed,         \* what the parser made of it
    http,           \* the last response an endpoint returned to a client
    rename,         \* the rename_document calls in flight
    calc            \* processed_count, total_docs and progress of a document loop

vars == <<env, docs, docjob, reorder_tasks, process_tasks, qa_tasks, job, text, parsed, http,
          rename, calc>>

\* The progress arithmetic of one client-driven job, followed on its own:
\* pc is the job's position, processed_count and total_docs are its locals and
\* progress is the value last written to its task record.  NoCalc: no job is
\* being followed.
NoCalc == [pc |-> "idle", processed_count |-> 0, total_docs |-> 0, progress |-> 0]

Projects == {"P1", "P2"}

\* File names and reasonings are tagged by who wrote them.
UploadName(d) == <<"upload", d, 0>>
NoReason == <<"none", 0, 0>>

\* The Document model: status defaults to "uploaded", the optional fields to
\* None.  "absent" marks an id no document has been inserted under.
AbsentDoc ==
    [status |-> "absent", project_id |-> "", original_filename |-> NoReason,
     extracted_data |-> NoData, processed_at |-> FALSE, display_order |-> 0,
     reorder_reasoning |-> NoReason, reordered_at |-> FALSE, created_at |-> 0]

\* created_at is the time of the upload: the d-th document uploaded is
\* created at time d.
Document(d, p) ==
    [status |-> "uploaded", project_id |-> p, original_filename |-> UploadName(d),
     extracted_data |-> NoData, processed_at |-> FALSE, display_order |-> 0,
     reorder_reasoning |-> NoReason, reordered_at |-> FALSE, created_at |-> d]

\* What an endpoint returns.  op names the endpoint; the fields an endpoint
\* does not return keep the values they have here.
NoResponse ==
    [op |-> "", code |-> 0, project_id |-> "", task_id |-> 0, status |-> "",
     progress |-> 0, result |-> [kind |-> "unset"], error |-> "",
     download_url |-> FALSE, documents_count |-> 0, documents |-> <<>>,
     document_id |-> 0, original_filename |-> NoReason]

\* {"message", "task_id", "documents_count", "status": "processing"}.
EnqueueResponse(op, p, t, n) ==
    [NoResponse EXCEPT !.op = op, !.code = 200, !.project_id = p, !.task_id = t,
                       !.documents_count = n, !.status = "processing"]

\* A rename_document call: its arguments and where it stands.
IdleRename == [pc |-> "idle", document_id |-> 0, new_name |-> NoReason]

IdleDocJob == [pc |-> "idle", extracted_data |-> NoData, response |-> NoMatch,
               err |-> "", ai_calls |-> 0]

\* The reply texts the AI gives to a document extraction.
DocReplies ==
    { <<"x">>,                          \* prose, no braces
      <<"x", "{", "m", "}">>,           \* prose followed by an object
      <<"{", "m", "}", "x", "}">>,      \* braces that do not decode
      <<"}", "x", "{">> }               \* a closing brace before the opening one

\* -------------------------------------------- get_project_documents (284-307)
\* find({"project_id": p}).to_list(1000): the ids found, in insertion order.
RECURSIVE ProjectFrom(_, _)
ProjectFrom(p, d) ==
    IF d > MaxDocs THEN <<>>
    ELSE IF docs[d].status # "absent" /\ docs[d].project_id = p
         THEN <<d>> \o ProjectFrom(p, d + 1)
         ELSE ProjectFrom(p, d + 1)

\* The key with every document taken as unordered.
SortKeyCreatedOnly(d) == <<1, docs[d].created_at>>

\* Lines 297-302: (0, display_order) for an ordered document, (1, created_at)
\* for one whose display_order is None.
sort_key(d) ==
    IF docs[d].display_order # 0 THEN <<0, docs[d].display_order>>
    ELSE <<1, docs[d].created_at>>

\* Tuple comparison of two keys.
KeyLess(a, b) == a[1] < b[1] \/ (a[1] = b[1] /\ a[2] < b[2])

\* list.sort(key=sort_key): a stable sort.  The element at position i of
\* the list goes behind the elements with a smaller key and the elements
\* with an equal key that stood before it.
Rank(found, i) ==
    1 + Cardinality({j \in 1..Len(found) :
                        \/ KeyLess(sort_key(found[j]), sort_key(found[i]))
                        \/ sort_key(found[j]) = sort_key(found[i]) /\ j < i})
Sorted(found) ==
    [n \in 1..Len(found) |-> found[CHOOSE i \in 1..Len(found) : Rank(found, i) = n]]

\* The ids of the documents returned, in the order returned.
ListDocuments(p) == Sorted(ProjectFrom(p, 1))

get_project_documents(p) ==
    /\ http' = [NoResponse EXCEPT !.op = "get_project_documents", !.code = 200,
                                  !.project_id = p, !.documents = ListDocuments(p)]
    /\ UNCHANGED <<env, calc, docs, docjob, reorder_tasks, process_tasks, qa_tasks, job, text, parsed, rename>>

\* -------------------------------------------------- rename_document (504-532)
\* The new_name of call r.
RenameName(r) == <<"rename", r, 0>>

\* Lines 511-513: the call arrives and looks the document up; 404 when there
\* is none.
rename_document(r, d) ==
    /\ rename[r].pc = "idle"
    /\ \A r2 \in 1..(r-1) : rename[r2].pc # "idle"
    /\ IF docs[d].status = "absent"
       THEN /\ rename' = [rename EXCEPT ![r] = [pc |-> "done", document_id |-> d,
                                                new_name |-> RenameName(r)]]
            /\ http' = [NoResponse EXCEPT !.op = "rename_document", !.code = 404,
                                          !.document_id = d]
       ELSE /\ rename' = [rename EXCEPT ![r] = [pc |-> "find_project", document_id |-> d,
                                                new_name |-> RenameName(r)]]
            /\ UNCHANGED http
    /\ UNCHANGED <<env, calc, docs, docjob, reorder_tasks, process_tasks, qa_tasks, job, text, parsed>>

\* Lines 516-522: the project is looked up; projects are never deleted.
RenameFindProject(r) ==
    /\ rename[r].pc = "find_project"
    /\ rename' = [rename EXCEPT ![r].pc = "update"]
    /\ UNCHANGED <<env, calc, docs, docjob, reorder_tasks, process_tasks, qa_tasks, job, text, parsed, http>>

\* Lines 525-528: update_one({"id": d}, {"$set": {"original_filename": new_name}}).
RenameUpdate(r) ==
    /\ rename[r].pc = "update"
    /\ docs' = [docs EXCEPT ![rename[r].document_id].original_filename = rename[r].new_name]
    /\ rename' = [rename EXCEPT ![r].pc = "read"]
    /\ UNCHANGED <<env, calc, docjob, reorder_tasks, process_tasks, qa_tasks, job, text, parsed, http>>

\* Lines 531-532: the document is read again and returned.
RenameReturn(r) ==
    /\ rename[r].pc = "read"
    /\ http' = [NoResponse EXCEPT !.op = "rename_document", !.code = 200,
                                  !.document_id = rename[r].document_id,
                                  !.project_id = docs[rename[r].document_id].project_id,
                                  !.status = docs[rename[r].document_id].status,
                                  !.original_filename =
                                      docs[rename[r].document_id].original_filename]
    /\ rename' = [rename EXCEPT ![r].pc = "done"]
    /\ UNCHANGED <<env, calc, docs, docjob, reorder_tasks, process_tasks, qa_tasks, job, text, parsed>>

RenameStep ==
    \E r \in RenameIds :
        \/ RenameFindProject(r)
        \/ RenameUpdate(r)
        \/ RenameReturn(r)

\* ------------------------------------------------- upload_document (310-352)
upload_document(p) ==
    /\ \E d \in DocIds :
         /\ docs[d].status = "absent"
         /\ \A d2 \in 1..(d-1) : docs[d2].status # "absent"
         /\ docs' = [docs EXCEPT ![d] = Document(d, p)]
         /\ docjob' = [docjob EXCEPT ![d] = [IdleDocJob EXCEPT !.pc = "start"]]
    /\ UNCHANGED <<env, calc, reorder_tasks, process_tasks, qa_tasks, job, text, parsed, http, rename>>

\* ---------------------------------------- process_document_with_ai (355-459)
\* Lines 357-366: the imports, then status := processing.
DocSetProcessing(d) ==
    /\ docjob[d].pc = "start"
    /\ IF env.llm_importable
       THEN /\ docs' = [docs EXCEPT ![d].status = "processing"]
            /\ docjob' = [docjob EXCEPT ![d].pc = "find"]
       ELSE /\ docjob' = [docjob EXCEPT ![d].pc = "except", ![d].err = "ImportError"]
            /\ UNCHANGED docs
    /\ UNCHANGED <<env, calc, reorder_tasks, process_tasks, qa_tasks, job, text, parsed, http, rename>>

\* The lookup without the credential check: the prompt is always sent.
DocFindNoKeyCheck(d) ==
    /\ docjob[d].pc = "find"
    /\ docjob' = [docjob EXCEPT ![d].pc = "send",
                                ![d].ai_calls = docjob[d].ai_calls + 1]
    /\ UNCHANGED <<env, calc, docs, reorder_tasks, process_tasks, qa_tasks, job, text, parsed, http, rename>>

\* Lines 368-422: find the document, read the credential; without one go to
\* the failed update, with one build the prompt and send it.
DocFind(d) ==
    /\ docjob[d].pc = "find"
    /\ IF docs[d].status = "absent"
       THEN docjob' = [docjob EXCEPT ![d].pc = "done"]
       ELSE IF ~env.api_key
       THEN docjob' = [docjob EXCEPT ![d].pc = "nokey"]
       ELSE docjob' = [docjob EXCEPT ![d].pc = "send",
                                     ![d].ai_calls = docjob[d].ai_calls + 1]
    /\ UNCHANGED <<env, calc, docs, reorder_tasks, process_tasks, qa_tasks, job, text, parsed, http, rename>>

\* The credential branch without its return: the job goes on to the AI call
\* after the failed update.
DocNoKeyNoReturn(d) ==
    /\ docjob[d].pc = "nokey"
    /\ docs' = [docs EXCEPT ![d].status = "failed"]
    /\ docjob' = [docjob EXCEPT ![d].pc = "send",
                                ![d].ai_calls = docjob[d].ai_calls + 1]
    /\ UNCHANGED <<env, calc, reorder_tasks, process_tasks, qa_tasks, job, text, parsed, http, rename>>

\* Lines 376-380.
DocNoKey(d) ==
    /\ docjob[d].pc = "nokey"
    /\ docs' = [docs EXCEPT ![d].status = "failed"]
    /\ docjob' = [docjob EXCEPT ![d].pc = "done"]
    /\ UNCHANGED <<env, calc, reorder_tasks, process_tasks, qa_tasks, job, text, parsed, http, rename>>

\* The parse without its try/except: an undecodable span raises into the
\* catch-all handler.
DocReplyUnguarded(d) ==
    /\ docjob[d].pc = "send"
    /\ \E response \in DocReplies :
         IF re_search(response) # NoMatch /\ ~json_loads(re_search(response)).ok
         THEN docjob' = [docjob EXCEPT ![d].pc = "except",
                                       ![d].response = response,
                                       ![d].err = "JSONDecodeError"]
         ELSE docjob' = [docjob EXCEPT ![d].pc = "store",
                                       ![d].response = response,
                                       ![d].extracted_data = ExtractData(response)]
    /\ UNCHANGED <<env, calc, docs, reorder_tasks, process_tasks, qa_tasks, job, text, parsed, http, rename>>

\* Lines 422-439: the AI call returns a text, which is parsed.
DocReply(d) ==
    /\ docjob[d].pc = "send"
    /\ \E response \in DocReplies :
         docjob' = [docjob EXCEPT ![d].pc = "store",
                                  ![d].response = response,
                                  ![d].extracted_data = ExtractData(response)]
    /\ UNCHANGED <<env, calc, docs, reorder_tasks, process_tasks, qa_tasks, job, text, parsed, http, rename>>

\* Line 422: the AI call raises a transport or provider error.
DocProviderError(d) ==
    /\ docjob[d].pc = "send"
    /\ docjob' = [docjob EXCEPT ![d].pc = "except", ![d].err = "ProviderError"]
    /\ UNCHANGED <<env, calc, docs, reorder_tasks, process_tasks, qa_tasks, job, text, parsed, http, rename>>

\* The final update without processed_at.
DocStoreNoTimestamp(d) ==
    /\ docjob[d].pc = "store"
    /\ docs' = [docs EXCEPT ![d].status = "completed",
                            ![d].extracted_data = docjob[d].extracted_data]
    /\ docjob' = [docjob EXCEPT ![d].pc = "done"]
    /\ UNCHANGED <<env, calc, reorder_tasks, process_tasks, qa_tasks, job, text, parsed, http, rename>>

\* The final update as a replacement of the whole document by the uploaded
\* one with the extraction results.
DocStoreWholeDocument(d) ==
    /\ docjob[d].pc = "store"
    /\ docs' = [docs EXCEPT ![d] = [Document(d, docs[d].project_id) EXCEPT
                                        !.status = "completed",
                                        !.extracted_data = docjob[d].extracted_data,
                                        !.processed_at = TRUE]]
    /\ docjob' = [docjob EXCEPT ![d].pc = "done"]
    /\ UNCHANGED <<env, calc, reorder_tasks, process_tasks, qa_tasks, job, text, parsed, http, rename>>

\* The final update with the status taken from the extraction record when it
\* carries one.
DocStoreReviewStatus(d) ==
    /\ docjob[d].pc = "store"
    /\ docs' = [docs EXCEPT ![d].status = IF "raw_response" \in docjob[d].extracted_data.keys
                                          THEN "needs_review" ELSE "completed",
                            ![d].extracted_data = docjob[d].extracted_data,
                            ![d].processed_at = TRUE]
    /\ docjob' = [docjob EXCEPT ![d].pc = "done"]
    /\ UNCHANGED <<env, calc, reorder_tasks, process_tasks, qa_tasks, job, text, parsed, http, rename>>

\* Lines 441-451.
DocStore(d) ==
    /\ docjob[d].pc = "store"
    /\ docs' = [docs EXCEPT ![d].status = "completed",
                            ![d].extracted_data = docjob[d].extracted_data,
                            ![d].processed_at = TRUE]
    /\ docjob' = [docjob EXCEPT ![d].pc = "done"]
    /\ UNCHANGED <<env, calc, reorder_tasks, process_tasks, qa_tasks, job, text, parsed, http, rename>>

\* The handler that only logs: the exception is swallowed and the document
\* is left as it was.
DocExceptLogOnly(d) ==
    /\ docjob[d].pc = "except"
    /\ docjob' = [docjob EXCEPT ![d].pc = "done"]
    /\ UNCHANGED <<env, calc, docs, reorder_tasks, process_tasks, qa_tasks, job, text, parsed, http, rename>>

\* The handler that also stores the exception's message on the document.
DocExceptStoresError(d) ==
    /\ docjob[d].pc = "except"
    /\ docs' = [docs EXCEPT ![d].status = "failed",
                            ![d].extracted_data = [kind |-> "error", raw |-> docjob[d].err]]
    /\ docjob' = [docjob EXCEPT ![d].pc = "done"]
    /\ UNCHANGED <<env, calc, reorder_tasks, process_tasks, qa_tasks, job, text, parsed, http, rename>>

\* Lines 453-459: the catch-all handler.
DocExcept(d) ==
    /\ docjob[d].pc = "except"
    /\ docs' = [docs EXCEPT ![d].status = "failed"]
    /\ docjob' = [docjob EXCEPT ![d].pc = "done"]
    /\ UNCHANGED <<env, calc, reorder_tasks, process_tasks, qa_tasks, job, text, parsed, http, rename>>

\* ------------------------------------------------------------ task records
\* A record of db.reorder_tasks, db.process_tasks or db.qa_tasks.  subject_id
\* is the record's project_id (agent_id in db.qa_tasks).  A field the code
\* has not set is NoResult, "" or FALSE.
NoResult == [kind |-> "unset"]
NoTask ==
    [exists |-> FALSE, subject_id |-> "", status |-> "", progress |-> 0,
     result |-> NoResult, error |-> "", download_url |-> FALSE]

\* The record inserted as queued, without a progress.
NewTaskQueued(subject) ==
    [exists |-> TRUE, subject_id |-> subject, status |-> "queued", progress |-> -1,
     result |-> NoResult, error |-> "", download_url |-> FALSE]

\* The record every job inserts first: status processing, progress 0.
NewTask(subject) ==
    [exists |-> TRUE, subject_id |-> subject, status |-> "processing", progress |-> 0,
     result |-> NoResult, error |-> "", download_url |-> FALSE]

\* The progress update without its task_id filter: every record is written.
SetProgressAllTasks(coll, t, n) ==
    [x \in DOMAIN coll |-> IF coll[x].exists THEN [coll[x] EXCEPT !.progress = n] ELSE coll[x]]

\* update_one({"task_id": t}, {"$set": {"progress": n}}): no upsert, so a
\* missing record stays missing.
SetProgress(coll, t, n) ==
    IF coll[t].exists THEN [coll EXCEPT ![t].progress = n] ELSE coll

\* update_one({"task_id": t}, {"$set": {"status": "failed", "error": e}}).
SetFailed(coll, t, e) ==
    IF coll[t].exists THEN [coll EXCEPT ![t].status = "failed", ![t].error = e] ELSE coll

\* update_one(... {"status": "completed", "progress": 100, "result": r}),
\* with download_url when url is TRUE.
SetCompleted(coll, t, r, url) ==
    IF coll[t].exists
    THEN [coll EXCEPT ![t].status = "completed", ![t].progress = 100,
                      ![t].result = r,
                      ![t].download_url = IF url THEN TRUE ELSE coll[t].download_url]
    ELSE coll

\* ------------------------------------------------------------- status polls
\* {"status": "not_found"}.
NotFound(op, p, t) ==
    [NoResponse EXCEPT !.op = op, !.code = 200, !.project_id = p, !.task_id = t,
                       !.status = "not_found"]

\* task_status.get("result", {}): the result, or {} for a record without one.
ResultOrEmpty(rec) ==
    IF rec.result = NoResult THEN [kind |-> "empty"] ELSE rec.result

\* The lookup by task_id alone, whatever project the poll names.
ReorderStatusAnyProject(p, t) ==
    IF t \in DOMAIN reorder_tasks /\ reorder_tasks[t].exists
    THEN [NoResponse EXCEPT !.op = "get_reorder_status", !.code = 200,
                            !.project_id = p, !.task_id = t,
                            !.status = reorder_tasks[t].status,
                            !.progress = reorder_tasks[t].progress,
                            !.result = ResultOrEmpty(reorder_tasks[t]),
                            !.error = reorder_tasks[t].error]
    ELSE NotFound("get_reorder_status", p, t)

\* Lines 575-585: find_one({"task_id": t, "project_id": p}) and what is
\* returned of the record found.
ReorderStatus(p, t) ==
    IF t \in DOMAIN reorder_tasks /\ reorder_tasks[t].exists
         /\ reorder_tasks[t].subject_id = p
    THEN [NoResponse EXCEPT !.op = "get_reorder_status", !.code = 200,
                            !.project_id = p, !.task_id = t,
                            !.status = reorder_tasks[t].status,
                            !.progress = reorder_tasks[t].progress,
                            !.result = ResultOrEmpty(reorder_tasks[t]),
                            !.error = reorder_tasks[t].error]
    ELSE NotFound("get_reorder_status", p, t)

\* Lines 1105-1114: the same over db.process_tasks, returning download_url
\* in place of result.
ProcessStatus(p, t) ==
    IF t \in DOMAIN process_tasks /\ process_tasks[t].exists
         /\ process_tasks[t].subject_id = p
    THEN [NoResponse EXCEPT !.op = "get_process_status", !.code = 200,
                            !.project_id = p, !.task_id = t,
                            !.status = process_tasks[t].status,
                            !.progress = process_tasks[t].progress,
                            !.download_url = process_tasks[t].download_url,
                            !.error = process_tasks[t].error]
    ELSE NotFound("get_process_status", p, t)

\* The poll that removes the record of a finished task once it has returned it.
GetReorderStatusConsuming(p, t) ==
    /\ http' = ReorderStatus(p, t)
    /\ reorder_tasks' = IF ReorderStatus(p, t).status \in {"completed", "failed"}
                        THEN [reorder_tasks EXCEPT ![t] = NoTask]
                        ELSE reorder_tasks
    /\ UNCHANGED <<env, calc, docs, docjob, process_tasks, qa_tasks, job, text, parsed, rename>>

\* ------------------------------------------------ get_reorder_status (569-585)
get_reorder_status(p, t) ==
    /\ http' = ReorderStatus(p, t)
    /\ UNCHANGED <<env, calc, docs, docjob, reorder_tasks, process_tasks, qa_tasks, job, text, parsed, rename>>

\* ---------------------------------------------- get_process_status (1099-1114)
get_process_status(p, t) ==
    /\ http' = ProcessStatus(p, t)
    /\ UNCHANGED <<env, calc, docs, docjob, reorder_tasks, process_tasks, qa_tasks, job, text, parsed, rename>>

\* ------------------------------------------------------------ batch inputs
\* A plan entry {id, new_order, suggested_name, reasoning}.  The name and the
\* reasoning are tagged with the task and the entry's position when they are
\* written.  complete = FALSE is an entry that lacks a required key.
\* The plans replied: the plan that names every document id once, in reverse
\* order, each prefix of it, and each proper prefix followed by an incomplete
\* entry.  A plan can name ids outside the job's document list.
FullPlan == [d \in DocIds |-> [id |-> d, new_order |-> MaxDocs + 1 - d, complete |-> TRUE]]
\* The plan that keeps the upload order.
SamePlan == [d \in DocIds |-> [id |-> d, new_order |-> d, complete |-> TRUE]]
IncompleteEntry == [id |-> 1, new_order |-> 1, complete |-> FALSE]
Plans ==
    {SubSeq(FullPlan, 1, n) : n \in 0..MaxDocs}
      \cup {SamePlan}
      \cup {Append(SubSeq(FullPlan, 1, n), IncompleteEntry) : n \in 0..(MaxDocs - 1)}

PlanText == <<"x", "{", "m", "d", "}">>
\* The replies the AI gives to a batch prompt: a text, and the contents of
\* its "documents" list when it has one.
BatchReplies ==
    {[text |-> tx, plan |-> <<>>] :
        tx \in { <<"x">>, <<"{", "x", "}">>, <<"{", "m", "}">> }}
      \cup {[text |-> PlanText, plan |-> pl] : pl \in Plans}

AiName(t, i) == <<"ai", t, i>>
ClientName(t, d) == <<"client", t, d>>

NoAiResult == [keys |-> {}, documents |-> <<>>]

IdleJob ==
    [kind |-> "", pc |-> "idle", project_id |-> "", documents |-> <<>>,
     changes |-> <<>>, response |-> NoMatch, ai_result |-> NoAiResult,
     idx |-> 0, reorder_results |-> <<>>, processed_count |-> 0,
     agent_id |-> "", err |-> "", ai_calls |-> 0]

\* A job that has returned: its locals are gone; what is kept records which
\* reply it received, which exception it caught and how often it called the AI.
Finished(j) ==
    [IdleJob EXCEPT !.kind = j.kind, !.pc = "done", !.project_id = j.project_id,
                    !.agent_id = j.agent_id, !.response = j.response,
                    !.err = j.err, !.ai_calls = j.ai_calls]

\* find({"project_id": p, "status": "completed"}).to_list(1000), as the
\* snapshot handed to the job.
RECURSIVE CompletedFrom(_, _)
CompletedFrom(p, d) ==
    IF d > MaxDocs THEN <<>>
    ELSE IF docs[d].status = "completed" /\ docs[d].project_id = p
         THEN <<[id |-> d, original_filename |-> docs[d].original_filename]>>
                \o CompletedFrom(p, d + 1)
         ELSE CompletedFrom(p, d + 1)
CompletedDocuments(p) == CompletedFrom(p, 1)

\* str(uuid.uuid4()): an id no job has been issued under.
FreshTaskId(t) ==
    /\ job[t].pc = "idle"
    /\ \A t2 \in 1..(t-1) : job[t2].pc # "idle"

\* ai_result.get("documents", []) of a decoded reply.
AiResult(reply) ==
    LET decoded == json_loads(re_search(reply.text))
    IN  [keys |-> decoded.keys,
         documents |-> IF "documents" \in decoded.keys THEN reply.plan ELSE <<>>]

\* The step after a reply: no match raises Exception("Invalid AI response
\* format"), an undecodable span raises JSONDecodeError.
ReplyError(reply) ==
    IF re_search(reply.text) = NoMatch THEN "Invalid AI response format"
    ELSE IF ~json_loads(re_search(reply.text)).ok THEN "JSONDecodeError"
    ELSE ""

\* The update without display_order.
SetOrderingNameOnly(d, order, name, reasoning) ==
    IF docs[d].status = "absent" THEN docs
    ELSE [docs EXCEPT ![d].original_filename = name,
                      ![d].reorder_reasoning = reasoning,
                      ![d].reordered_at = TRUE]

\* update_one({"id": d}, {"$set": {display_order, original_filename,
\* reorder_reasoning, reordered_at}}): one write of the four ordering fields,
\* a no-op when no document has that id.
SetOrdering(d, order, name, reasoning) ==
    IF docs[d].status = "absent" THEN docs
    ELSE [docs EXCEPT ![d].display_order = order,
                      ![d].original_filename = name,
                      ![d].reorder_reasoning = reasoning,
                      ![d].reordered_at = TRUE]

\* The endpoint awaiting the insert of the task record before it returns.
ReorderEnqueueAwaited(p) ==
    /\ Len(CompletedDocuments(p)) # 0
    /\ \E t \in DOMAIN job :
         /\ FreshTaskId(t)
         /\ job' = [job EXCEPT ![t] = [IdleJob EXCEPT !.kind = "reorder", !.pc = "start",
                                                      !.project_id = p,
                                                      !.documents = CompletedDocuments(p)]]
         /\ reorder_tasks' = [reorder_tasks EXCEPT ![t] = NewTask(p)]
         /\ http' = EnqueueResponse("reorder_documents_with_ai", p, t, Len(CompletedDocuments(p)))
    /\ UNCHANGED <<env, calc, docs, docjob, process_tasks, qa_tasks, text, parsed, rename>>

\* --------------------------------------- reorder_documents_with_ai (534-567)
reorder_documents_with_ai(p) ==
    /\ Len(CompletedDocuments(p)) # 0
    /\ \E t \in DOMAIN job :
         /\ FreshTaskId(t)
         /\ job' = [job EXCEPT ![t] = [IdleJob EXCEPT !.kind = "reorder", !.pc = "start",
                                                      !.project_id = p,
                                                      !.documents = CompletedDocuments(p)]]
         /\ http' = EnqueueResponse("reorder_documents_with_ai", p, t, Len(CompletedDocuments(p)))
    /\ UNCHANGED <<env, calc, docs, docjob, reorder_tasks, process_tasks, qa_tasks, text, parsed, rename>>

\* ------------------------------------- process_document_reordering (588-747)
\* The start of the job without the credential check.
ReorderInsertNoKeyCheck(t) ==
    /\ job[t].kind = "reorder" /\ job[t].pc = "start"
    /\ IF env.llm_importable
       THEN /\ reorder_tasks' = [reorder_tasks EXCEPT ![t] = NewTask(job[t].project_id)]
            /\ job' = [job EXCEPT ![t].pc = "p25"]
       ELSE /\ job' = [job EXCEPT ![t].pc = "except", ![t].err = "ImportError"]
            /\ UNCHANGED reorder_tasks
    /\ UNCHANGED <<env, calc, docs, docjob, process_tasks, qa_tasks, text, parsed, http, rename>>

\* Lines 590-629: the imports, the insert of the task record, the credential.
ReorderInsert(t) ==
    /\ job[t].kind = "reorder" /\ job[t].pc = "start"
    /\ IF env.llm_importable
       THEN /\ reorder_tasks' = [reorder_tasks EXCEPT ![t] = NewTask(job[t].project_id)]
            /\ job' = [job EXCEPT ![t].pc = IF env.api_key THEN "p25" ELSE "nokey"]
       ELSE /\ job' = [job EXCEPT ![t].pc = "except", ![t].err = "ImportError"]
            /\ UNCHANGED reorder_tasks
    /\ UNCHANGED <<env, calc, docs, docjob, process_tasks, qa_tasks, text, parsed, http, rename>>

\* The credential branch without its return: the job goes on after the
\* failed update.
ReorderNoKeyNoReturn(t) ==
    /\ job[t].kind = "reorder" /\ job[t].pc = "nokey"
    /\ reorder_tasks' = SetFailed(reorder_tasks, t, "No API key available")
    /\ job' = [job EXCEPT ![t].pc = "p25"]
    /\ UNCHANGED <<env, calc, docs, docjob, process_tasks, qa_tasks, text, parsed, http, rename>>

\* Lines 605-610.
ReorderNoKey(t) ==
    /\ job[t].kind = "reorder" /\ job[t].pc = "nokey"
    /\ reorder_tasks' = SetFailed(reorder_tasks, t, "No API key available")
    /\ job' = [job EXCEPT ![t] = Finished(job[t])]
    /\ UNCHANGED <<env, calc, docs, docjob, process_tasks, qa_tasks, text, parsed, http, rename>>

\* Lines 631-635.
ReorderP25(t) ==
    /\ job[t].kind = "reorder" /\ job[t].pc = "p25"
    /\ reorder_tasks' = SetProgress(reorder_tasks, t, 25)
    /\ job' = [job EXCEPT ![t].pc = "p50"]
    /\ UNCHANGED <<env, calc, docs, docjob, process_tasks, qa_tasks, text, parsed, http, rename>>

\* Lines 669-677: progress 50 is written, then the prompt is sent.
ReorderP50(t) ==
    /\ job[t].kind = "reorder" /\ job[t].pc = "p50"
    /\ reorder_tasks' = SetProgress(reorder_tasks, t, 50)
    /\ job' = [job EXCEPT ![t].pc = "ai", ![t].ai_calls = job[t].ai_calls + 1]
    /\ UNCHANGED <<env, calc, docs, docjob, process_tasks, qa_tasks, text, parsed, http, rename>>

\* Lines 677-685: the reply arrives and is parsed.
ReorderReply(t) ==
    /\ job[t].kind = "reorder" /\ job[t].pc = "ai"
    /\ \E reply \in BatchReplies :
         IF ReplyError(reply) # ""
         THEN job' = [job EXCEPT ![t].pc = "except", ![t].response = reply.text,
                                 ![t].err = ReplyError(reply)]
         ELSE job' = [job EXCEPT ![t].pc = "p75", ![t].response = reply.text,
                                 ![t].ai_result = AiResult(reply)]
    /\ UNCHANGED <<env, calc, docs, docjob, reorder_tasks, process_tasks, qa_tasks, text, parsed, http, rename>>

\* Line 677: the AI call raises.
ReorderProviderError(t) ==
    /\ job[t].kind = "reorder" /\ job[t].pc = "ai"
    /\ job' = [job EXCEPT ![t].pc = "except", ![t].err = "ProviderError"]
    /\ UNCHANGED <<env, calc, docs, docjob, reorder_tasks, process_tasks, qa_tasks, text, parsed, http, rename>>

\* Where the loop of lines 695-719 goes before it handles entry i: out of
\* the loop, into the handler on a missing key, or to the entry's update.
LoopPc(plan, i) ==
    IF i > Len(plan) THEN "complete"
    ELSE IF ~plan[i].complete THEN "except"
    ELSE "apply"

LoopErr(plan, i) ==
    IF i <= Len(plan) /\ ~plan[i].complete THEN "KeyError" ELSE ""

\* Lines 687-699: progress 75, then the loop is entered.
ReorderP75(t) ==
    /\ job[t].kind = "reorder" /\ job[t].pc = "p75"
    /\ reorder_tasks' = SetProgress(reorder_tasks, t, 75)
    /\ job' = [job EXCEPT ![t].pc = LoopPc(job[t].ai_result.documents, 1),
                          ![t].err = LoopErr(job[t].ai_result.documents, 1),
                          ![t].idx = 1]
    /\ UNCHANGED <<env, calc, docs, docjob, process_tasks, qa_tasks, text, parsed, http, rename>>

\* The update made only when no task has ordered the document yet: the
\* first write wins.
ReorderApplyFirstWins(t) ==
    /\ job[t].kind = "reorder" /\ job[t].pc = "apply"
    /\ LET plan == job[t].ai_result.documents
           i == job[t].idx
       IN  /\ docs' = IF docs[plan[i].id].reordered_at THEN docs
                      ELSE SetOrdering(plan[i].id, plan[i].new_order, AiName(t, i), AiName(t, i))
           /\ job' = [job EXCEPT ![t].pc = LoopPc(plan, i + 1),
                                 ![t].err = LoopErr(plan, i + 1),
                                 ![t].idx = i + 1,
                                 ![t].reorder_results = Append(job[t].reorder_results, plan[i])]
    /\ UNCHANGED <<env, calc, docjob, reorder_tasks, process_tasks, qa_tasks, text, parsed, http, rename>>

\* Lines 701-719: the update of one entry's document.
ReorderApply(t) ==
    /\ job[t].kind = "reorder" /\ job[t].pc = "apply"
    /\ LET plan == job[t].ai_result.documents
           i == job[t].idx
       IN  /\ docs' = SetOrdering(plan[i].id, plan[i].new_order, AiName(t, i), AiName(t, i))
           /\ job' = [job EXCEPT ![t].pc = LoopPc(plan, i + 1),
                                 ![t].err = LoopErr(plan, i + 1),
                                 ![t].idx = i + 1,
                                 ![t].reorder_results = Append(job[t].reorder_results, plan[i])]
    /\ UNCHANGED <<env, calc, docjob, reorder_tasks, process_tasks, qa_tasks, text, parsed, http, rename>>

\* Lines 721-735.
ReorderComplete(t) ==
    /\ job[t].kind = "reorder" /\ job[t].pc = "complete"
    /\ reorder_tasks' = SetCompleted(reorder_tasks, t,
                            [kind |-> "reorder", documents |-> job[t].reorder_results,
                             total_processed |-> Len(job[t].reorder_results)], FALSE)
    /\ job' = [job EXCEPT ![t] = Finished(job[t])]
    /\ UNCHANGED <<env, calc, docs, docjob, process_tasks, qa_tasks, text, parsed, http, rename>>

\* The handler that removes the record of the task it fails.
ReorderExceptDeleteRecord(t) ==
    /\ job[t].kind = "reorder" /\ job[t].pc = "except"
    /\ reorder_tasks' = [reorder_tasks EXCEPT ![t] = NoTask]
    /\ job' = [job EXCEPT ![t] = Finished(job[t])]
    /\ UNCHANGED <<env, calc, docs, docjob, process_tasks, qa_tasks, text, parsed, http, rename>>

\* The handler that also undoes the writes the task made to the documents.
ReorderExceptRollback(t) ==
    /\ job[t].kind = "reorder" /\ job[t].pc = "except"
    /\ reorder_tasks' = SetFailed(reorder_tasks, t, job[t].err)
    /\ docs' = [d \in DocIds |->
                  IF docs[d].reorder_reasoning[1] = "ai" /\ docs[d].reorder_reasoning[2] = t
                  THEN [docs[d] EXCEPT !.display_order = 0,
                                       !.original_filename = UploadName(d),
                                       !.reorder_reasoning = NoReason,
                                       !.reordered_at = FALSE]
                  ELSE docs[d]]
    /\ job' = [job EXCEPT ![t] = Finished(job[t])]
    /\ UNCHANGED <<env, calc, docjob, process_tasks, qa_tasks, text, parsed, http, rename>>

\* Lines 737-747: the catch-all handler.
ReorderExcept(t) ==
    /\ job[t].kind = "reorder" /\ job[t].pc = "except"
    /\ reorder_tasks' = SetFailed(reorder_tasks, t, job[t].err)
    /\ job' = [job EXCEPT ![t] = Finished(job[t])]
    /\ UNCHANGED <<env, calc, docs, docjob, process_tasks, qa_tasks, text, parsed, http, rename>>

\* --------------------------------------- process_documents_reorder (1064-1097)
process_documents_reorder(p) ==
    /\ Len(CompletedDocuments(p)) # 0
    /\ \E t \in DOMAIN job :
         /\ FreshTaskId(t)
         /\ job' = [job EXCEPT ![t] = [IdleJob EXCEPT !.kind = "process_pdf", !.pc = "start",
                                                      !.project_id = p,
                                                      !.documents = CompletedDocuments(p)]]
         /\ http' = EnqueueResponse("process_documents_reorder", p, t, Len(CompletedDocuments(p)))
    /\ UNCHANGED <<env, calc, docs, docjob, reorder_tasks, process_tasks, qa_tasks, text, parsed, rename>>

\* ------------------------- process_document_reordering_with_pdf (1246-1362)
\* Lines 1248-1274.
PdfInsert(t) ==
    /\ job[t].kind = "process_pdf" /\ job[t].pc = "start"
    /\ IF env.llm_importable
       THEN /\ process_tasks' = [process_tasks EXCEPT ![t] = NewTask(job[t].project_id)]
            /\ job' = [job EXCEPT ![t].pc = IF env.api_key THEN "p25" ELSE "nokey"]
       ELSE /\ job' = [job EXCEPT ![t].pc = "except", ![t].err = "ImportError"]
            /\ UNCHANGED process_tasks
    /\ UNCHANGED <<env, calc, docs, docjob, reorder_tasks, qa_tasks, text, parsed, http, rename>>

\* Lines 1263-1268.
PdfNoKey(t) ==
    /\ job[t].kind = "process_pdf" /\ job[t].pc = "nokey"
    /\ process_tasks' = SetFailed(process_tasks, t, "No API key available")
    /\ job' = [job EXCEPT ![t] = Finished(job[t])]
    /\ UNCHANGED <<env, calc, docs, docjob, reorder_tasks, qa_tasks, text, parsed, http, rename>>

\* Lines 1276-1280.
PdfP25(t) ==
    /\ job[t].kind = "process_pdf" /\ job[t].pc = "p25"
    /\ process_tasks' = SetProgress(process_tasks, t, 25)
    /\ job' = [job EXCEPT ![t].pc = "p50"]
    /\ UNCHANGED <<env, calc, docs, docjob, reorder_tasks, qa_tasks, text, parsed, http, rename>>

\* Lines 1316-1324.
PdfP50(t) ==
    /\ job[t].kind = "process_pdf" /\ job[t].pc = "p50"
    /\ process_tasks' = SetProgress(process_tasks, t, 50)
    /\ job' = [job EXCEPT ![t].pc = "ai", ![t].ai_calls = job[t].ai_calls + 1]
    /\ UNCHANGED <<env, calc, docs, docjob, reorder_tasks, qa_tasks, text, parsed, http, rename>>

\* Lines 1324-1332.
PdfReply(t) ==
    /\ job[t].kind = "process_pdf" /\ job[t].pc = "ai"
    /\ \E reply \in BatchReplies :
         IF ReplyError(reply) # ""
         THEN job' = [job EXCEPT ![t].pc = "except", ![t].response = reply.text,
                                 ![t].err = ReplyError(reply)]
         ELSE job' = [job EXCEPT ![t].pc = "p75", ![t].response = reply.text,
                                 ![t].ai_result = AiResult(reply)]
    /\ UNCHANGED <<env, calc, docs, docjob, reorder_tasks, process_tasks, qa_tasks, text, parsed, http, rename>>

\* Line 1324: the AI call raises.
PdfProviderError(t) ==
    /\ job[t].kind = "process_pdf" /\ job[t].pc = "ai"
    /\ job' = [job EXCEPT ![t].pc = "except", ![t].err = "ProviderError"]
    /\ UNCHANGED <<env, calc, docs, docjob, reorder_tasks, process_tasks, qa_tasks, text, parsed, http, rename>>

\* Lines 1334-1342: progress 75; no document is written by this job.
PdfP75(t) ==
    /\ job[t].kind = "process_pdf" /\ job[t].pc = "p75"
    /\ process_tasks' = SetProgress(process_tasks, t, 75)
    /\ job' = [job EXCEPT ![t].pc = "complete"]
    /\ UNCHANGED <<env, calc, docs, docjob, reorder_tasks, qa_tasks, text, parsed, http, rename>>

\* Lines 1344-1355: result is the decoded reply as it came.
PdfComplete(t) ==
    /\ job[t].kind = "process_pdf" /\ job[t].pc = "complete"
    /\ process_tasks' = SetCompleted(process_tasks, t,
                            [kind |-> "ai_result", keys |-> job[t].ai_result.keys,
                             documents |-> job[t].ai_result.documents], TRUE)
    /\ job' = [job EXCEPT ![t] = Finished(job[t])]
    /\ UNCHANGED <<env, calc, docs, docjob, reorder_tasks, qa_tasks, text, parsed, http, rename>>

\* Lines 1357-1362.
PdfExcept(t) ==
    /\ job[t].kind = "process_pdf" /\ job[t].pc = "except"
    /\ process_tasks' = SetFailed(process_tasks, t, job[t].err)
    /\ job' = [job EXCEPT ![t] = Finished(job[t])]
    /\ UNCHANGED <<env, calc, docs, docjob, reorder_tasks, qa_tasks, text, parsed, http, rename>>

\* ------------------------------- process_documents_rename_reorder (836-876)
\* A value of the client's change map: a dict with an optional newName and an
\* optional newOrder (0 = not given), or something that is not a dict.
NamedChange(d) == [dict |-> TRUE, hasName |-> TRUE, newOrder |-> MaxDocs + 1 - d]
DefaultChange == [dict |-> TRUE, hasName |-> FALSE, newOrder |-> 0]
NotADict == [dict |-> FALSE, hasName |-> FALSE, newOrder |-> 0]
\* The change maps sent: over the ids 1..n, every value a full change, every
\* value an empty dict, or full changes with a last value that is no dict.
ChangeMaps ==
    UNION {{[d \in 1..n |-> NamedChange(d)],
            [d \in 1..n |-> DefaultChange],
            [d \in 1..n |-> IF d = n THEN NotADict ELSE NamedChange(d)]} : n \in DocIds}

\* find({"id": {"$in": ids}, "project_id": p, "status": "completed"}).
RECURSIVE ChangedFrom(_, _, _)
ChangedFrom(p, ids, d) ==
    IF d > MaxDocs THEN <<>>
    ELSE IF d \in ids /\ docs[d].status = "completed" /\ docs[d].project_id = p
         THEN <<[id |-> d, original_filename |-> docs[d].original_filename]>>
                \o ChangedFrom(p, ids, d + 1)
         ELSE ChangedFrom(p, ids, d + 1)

\* The endpoint gathering every completed document of the project, whether
\* the change map names it or not.
ChangesEnqueueAllCompleted(p, changes) ==
    /\ Len(CompletedDocuments(p)) # 0
    /\ \E t \in DOMAIN job :
         /\ FreshTaskId(t)
         /\ job' = [job EXCEPT ![t] = [IdleJob EXCEPT !.kind = "changes", !.pc = "start",
                                                      !.project_id = p,
                                                      !.changes = changes,
                                                      !.documents = CompletedDocuments(p)]]
         /\ http' = EnqueueResponse("process_documents_rename_reorder", p, t,
                                     Len(CompletedDocuments(p)))
    /\ UNCHANGED <<env, calc, docs, docjob, reorder_tasks, process_tasks, qa_tasks, text, parsed, rename>>

process_documents_rename_reorder(p, changes) ==
    /\ Len(ChangedFrom(p, DOMAIN changes, 1)) # 0
    /\ \E t \in DOMAIN job :
         /\ FreshTaskId(t)
         /\ job' = [job EXCEPT ![t] = [IdleJob EXCEPT !.kind = "changes", !.pc = "start",
                                                      !.project_id = p,
                                                      !.changes = changes,
                                                      !.documents = ChangedFrom(p, DOMAIN changes, 1)]]
         /\ http' = EnqueueResponse("process_documents_rename_reorder", p, t,
                                     Len(ChangedFrom(p, DOMAIN changes, 1)))
    /\ UNCHANGED <<env, calc, docs, docjob, reorder_tasks, process_tasks, qa_tasks, text, parsed, rename>>

\* ----------------------------------------- process_document_changes (981-1061)
\* Where the loop of lines 1002-1029 goes before it handles document i:
\* a document without a change is skipped, a change that is not a dict
\* raises on change.get.
RECURSIVE ChangesLoopIdx(_, _, _)
ChangesLoopIdx(documents, changes, i) ==
    IF i > Len(documents) THEN i
    ELSE IF documents[i].id \in DOMAIN changes THEN i
    ELSE ChangesLoopIdx(documents, changes, i + 1)

ChangesLoopPc(documents, changes, i) ==
    LET n == ChangesLoopIdx(documents, changes, i)
    IN  IF n > Len(documents) THEN "p75"
        ELSE IF ~changes[documents[n].id].dict THEN "except"
        ELSE "apply"

ChangesLoopErr(documents, changes, i) ==
    IF ChangesLoopPc(documents, changes, i) = "except" THEN "AttributeError" ELSE ""

\* ------------------------------------------------ float arithmetic of line 1025
\* Python floats are IEEE-754 doubles.  A positive double is a mantissa of 53
\* bits with leading bit 1 and an exponent: its value is
\* mant * 2^(exp - 52).  The mantissa is kept as its leading bit followed by
\* four limbs of 13 bits each, most significant first.  Every operation is
\* rounded to nearest, ties to even.
Limb == 8192
MantLen == 5

\* 2^e
RECURSIVE Pow2(_)
Pow2(e) == IF e = 0 THEN 1 ELSE 2 * Pow2(e - 1)

\* The double nearest to the exact value (mant + guard/2 + a nonzero rest
\* below the guard bit when sticky) * 2^(exp - 52).  inc is mant + 1: a limb
\* is incremented when all limbs after it are full, and the leading limb
\* becomes 2 when the mantissa was all ones.
RoundToDouble(mant, exp, guard, sticky) ==
    CHOOSE rounded \in
        {LET up == guard = 1 /\ (sticky \/ m[MantLen] % 2 = 1)
             inc == [i \in 1..MantLen |->
                        IF \A j \in (i + 1)..MantLen : m[j] = Limb - 1
                        THEN (IF i = 1 THEN m[1] + 1 ELSE (m[i] + 1) % Limb)
                        ELSE m[i]]
         IN  IF ~up THEN [mant |-> m, exp |-> exp]
             ELSE IF inc[1] = 1 THEN [mant |-> inc, exp |-> exp]
             ELSE [mant |-> [i \in 1..MantLen |-> IF i = 1 THEN 1 ELSE 0],
                   exp |-> exp + 1] :
         m \in {mant}} : TRUE

\* What is left of r < n after c more limbs of the quotient by n.
RECURSIVE DivRem(_, _, _)
DivRem(r, n, c) ==
    IF c = 0 THEN r ELSE (DivRem(r, n, c - 1) * Limb) % n

\* How often k is doubled to reach n; Shift(1, c + 1) is the number of bits
\* of c.
RECURSIVE Shift(_, _)
Shift(k, n) == IF k >= n THEN 0 ELSE 1 + Shift(2 * k, n)

\* k / n for integers 1 <= k <= n with n * Limb within the integers.
float_div(k, n) ==
    LET e == Shift(k, n)
        r == k * Pow2(e) - n
        last == DivRem(r, n, MantLen - 1)
        mant == [i \in 1..MantLen |->
                    IF i = 1 THEN 1
                    ELSE (DivRem(r, n, i - 2) * Limb) \div n]
    IN  RoundToDouble(mant, 0 - e, (2 * last) \div n, (2 * last) % n # 0)

\* What mant * m carries out of limb i into the limb before it.
RECURSIVE MulCarry(_, _, _)
MulCarry(mant, i, m) ==
    IF i > MantLen THEN 0
    ELSE (mant[i] * m + MulCarry(mant, i + 1, m)) \div Limb

\* x * m for a double x and an integer 2 <= m < Limb: the leading limb
\* of the exact product holds everything above the limbs below it, and the
\* last s bits of the product are rounded away, s being what the leading
\* limb has in excess of one bit.
float_mul(x, m) ==
    LET product == [i \in 1..MantLen |->
                       IF i = 1 THEN x.mant[1] * m + MulCarry(x.mant, 2, m)
                       ELSE (x.mant[i] * m + MulCarry(x.mant, i + 1, m))
                                % Limb]
        s == Shift(1, product[1] + 1) - 1
        dropped == product[MantLen] % Pow2(s)
        mant == [i \in 1..MantLen |->
                    IF i = 1 THEN product[1] \div Pow2(s)
                    ELSE (product[i - 1] % Pow2(s)) * (Limb \div Pow2(s))
                            + (product[i] \div Pow2(s))]
    IN  RoundToDouble(mant, x.exp + s, dropped \div Pow2(s - 1),
                      dropped % Pow2(s - 1) # 0)

\* int(x): the integer part of a double below Limb.
float_int(x) ==
    IF x.exp < 0 THEN 0
    ELSE Pow2(x.exp) + (x.mant[2] \div (Limb \div Pow2(x.exp)))

\* The values of 25 + int((processed_count / total_docs) * 50), one operation
\* after the other, each on the value of the one before: computed once, as
\* sequences, for every total_docs and processed_count a job can have.
ProgressValues ==
    SubSeq([n \in 1..(MaxTotal + MaxDocs) |->
                SubSeq([k \in 1..n |->
                           CHOOSE progress \in
                               {25 + float_int(product) :
                                   product \in {float_mul(quotient, 50) :
                                       quotient \in {float_div(k, n)}}} : TRUE],
                       1, n)],
           1, MaxTotal + MaxDocs)

\* The progress as a plain percentage of the documents handled.
ChangesProgressPercent(processed_count, total_docs) ==
    (processed_count * 100) \div total_docs

\* Line 1025: 25 + int((processed_count / total_docs) * 50).
ChangesProgressValue(processed_count, total_docs) ==
    ProgressValues[total_docs][processed_count]

\* The start of the job as the AI-driven jobs have it: the import of the LLM
\* client, then the insert, then the credential.
ChangesInsertKeyCheck(t) ==
    /\ job[t].kind = "changes" /\ job[t].pc = "start"
    /\ IF ~env.llm_importable
       THEN /\ job' = [job EXCEPT ![t].pc = "except", ![t].err = "ImportError"]
            /\ UNCHANGED process_tasks
       ELSE IF ~env.api_key
       THEN /\ process_tasks' = [process_tasks EXCEPT ![t] =
                                    [NewTask(job[t].project_id) EXCEPT
                                        !.status = "failed",
                                        !.error = "No API key available"]]
            /\ job' = [job EXCEPT ![t] = Finished(job[t])]
       ELSE /\ process_tasks' = [process_tasks EXCEPT ![t] = NewTask(job[t].project_id)]
            /\ job' = [job EXCEPT ![t].pc = "p25"]
    /\ UNCHANGED <<env, calc, docs, docjob, reorder_tasks, qa_tasks, text, parsed, http, rename>>

\* Lines 983-990.
ChangesInsert(t) ==
    /\ job[t].kind = "changes" /\ job[t].pc = "start"
    /\ process_tasks' = [process_tasks EXCEPT ![t] = NewTask(job[t].project_id)]
    /\ job' = [job EXCEPT ![t].pc = "p25"]
    /\ UNCHANGED <<env, calc, docs, docjob, reorder_tasks, qa_tasks, text, parsed, http, rename>>

\* Lines 992-1007: progress 25, then the loop is entered.
ChangesP25(t) ==
    /\ job[t].kind = "changes" /\ job[t].pc = "p25"
    /\ process_tasks' = SetProgress(process_tasks, t, 25)
    /\ job' = [job EXCEPT ![t].pc = ChangesLoopPc(job[t].documents, job[t].changes, 1),
                          ![t].err = ChangesLoopErr(job[t].documents, job[t].changes, 1),
                          ![t].idx = ChangesLoopIdx(job[t].documents, job[t].changes, 1)]
    /\ UNCHANGED <<env, calc, docs, docjob, reorder_tasks, qa_tasks, text, parsed, http, rename>>

\* The update that writes the order alone and leaves name, reasoning and
\* timestamp to a second update that is not reached.
ChangesApplyOrderOnly(t) ==
    /\ job[t].kind = "changes" /\ job[t].pc = "apply"
    /\ LET document == job[t].documents[job[t].idx]
           change == job[t].changes[document.id]
           new_order == IF change.newOrder = 0 THEN 1 ELSE change.newOrder
       IN  docs' = IF docs[document.id].status = "absent" THEN docs
                   ELSE [docs EXCEPT ![document.id].display_order = new_order]
    /\ job' = [job EXCEPT ![t].pc = "progress",
                          ![t].processed_count = job[t].processed_count + 1]
    /\ UNCHANGED <<env, calc, docjob, reorder_tasks, process_tasks, qa_tasks, text, parsed, http, rename>>

\* Lines 1005-1022: the update of one document.
ChangesApply(t) ==
    /\ job[t].kind = "changes" /\ job[t].pc = "apply"
    /\ LET document == job[t].documents[job[t].idx]
           change == job[t].changes[document.id]
           new_name == IF change.hasName THEN ClientName(t, document.id)
                       ELSE document.original_filename
           new_order == IF change.newOrder = 0 THEN 1 ELSE change.newOrder
       IN  docs' = SetOrdering(document.id, new_order, new_name, ClientName(t, document.id))
    /\ job' = [job EXCEPT ![t].pc = "progress",
                          ![t].processed_count = job[t].processed_count + 1]
    /\ UNCHANGED <<env, calc, docjob, reorder_tasks, process_tasks, qa_tasks, text, parsed, http, rename>>

\* Lines 1024-1029: the progress after one document, then the next document.
ChangesProgress(t) ==
    /\ job[t].kind = "changes" /\ job[t].pc = "progress"
    /\ process_tasks' = SetProgress(process_tasks, t,
                            ChangesProgressValue(job[t].processed_count, Len(job[t].documents)))
    /\ job' = [job EXCEPT ![t].pc = ChangesLoopPc(job[t].documents, job[t].changes, job[t].idx + 1),
                          ![t].err = ChangesLoopErr(job[t].documents, job[t].changes, job[t].idx + 1),
                          ![t].idx = ChangesLoopIdx(job[t].documents, job[t].changes, job[t].idx + 1)]
    /\ UNCHANGED <<env, calc, docs, docjob, reorder_tasks, qa_tasks, text, parsed, http, rename>>

\* Lines 1031-1035.
ChangesP75(t) ==
    /\ job[t].kind = "changes" /\ job[t].pc = "p75"
    /\ process_tasks' = SetProgress(process_tasks, t, 75)
    /\ job' = [job EXCEPT ![t].pc = "complete"]
    /\ UNCHANGED <<env, calc, docs, docjob, reorder_tasks, qa_tasks, text, parsed, http, rename>>

\* Lines 1037-1054.
ChangesComplete(t) ==
    /\ job[t].kind = "changes" /\ job[t].pc = "complete"
    /\ process_tasks' = SetCompleted(process_tasks, t,
                            [kind |-> "changes",
                             processed_documents |-> job[t].processed_count,
                             total_documents |-> Len(job[t].documents)], TRUE)
    /\ job' = [job EXCEPT ![t] = Finished(job[t])]
    /\ UNCHANGED <<env, calc, docs, docjob, reorder_tasks, qa_tasks, text, parsed, http, rename>>

\* Lines 1056-1061.
ChangesExcept(t) ==
    /\ job[t].kind = "changes" /\ job[t].pc = "except"
    /\ process_tasks' = SetFailed(process_tasks, t, job[t].err)
    /\ job' = [job EXCEPT ![t] = Finished(job[t])]
    /\ UNCHANGED <<env, calc, docs, docjob, reorder_tasks, qa_tasks, text, parsed, http, rename>>

\* ----------------------------------------------------- run_qa_agent (801-812)
\* The agents of db.qa_agents; no endpoint deletes one.
Agents == {"A1"}

run_qa_agent(a) ==
    /\ a \in Agents
    /\ \E t \in DOMAIN job :
         /\ FreshTaskId(t)
         /\ job' = [job EXCEPT ![t] = [IdleJob EXCEPT !.kind = "qa", !.pc = "start",
                                                      !.agent_id = a]]
         /\ http' = [NoResponse EXCEPT !.op = "run_qa_agent", !.code = 200, !.task_id = t]
    /\ UNCHANGED <<env, calc, docs, docjob, reorder_tasks, process_tasks, qa_tasks, text, parsed, rename>>

\* ------------------------------------------------- process_qa_check (1189-1244)
\* Lines 1191-1207: the imports, the agent lookup, the insert of the record.
QaInsert(t) ==
    /\ job[t].kind = "qa" /\ job[t].pc = "start"
    /\ IF ~env.llm_importable
       THEN /\ job' = [job EXCEPT ![t].pc = "except", ![t].err = "ImportError"]
            /\ UNCHANGED qa_tasks
       ELSE IF job[t].agent_id \notin Agents
       THEN /\ job' = [job EXCEPT ![t] = Finished(job[t])]
            /\ UNCHANGED qa_tasks
       ELSE /\ qa_tasks' = [qa_tasks EXCEPT ![t] = NewTask(job[t].agent_id)]
            /\ job' = [job EXCEPT ![t].pc = "find_documents"]
    /\ UNCHANGED <<env, calc, docs, docjob, reorder_tasks, process_tasks, text, parsed, http, rename>>

\* Lines 1209-1225: the documents are read, then the credential: without one
\* the function falls off its end.
QaFindDocuments(t) ==
    /\ job[t].kind = "qa" /\ job[t].pc = "find_documents"
    /\ job' = IF env.api_key THEN [job EXCEPT ![t].pc = "p50"]
               ELSE [job EXCEPT ![t] = Finished(job[t])]
    /\ UNCHANGED <<env, calc, docs, docjob, reorder_tasks, process_tasks, qa_tasks, text, parsed, http, rename>>

\* Lines 1227-1231.
QaP50(t) ==
    /\ job[t].kind = "qa" /\ job[t].pc = "p50"
    /\ qa_tasks' = SetProgress(qa_tasks, t, 50)
    /\ job' = [job EXCEPT ![t].pc = "complete"]
    /\ UNCHANGED <<env, calc, docs, docjob, reorder_tasks, process_tasks, text, parsed, http, rename>>

\* Lines 1233-1237: status and progress only, no result.
QaComplete(t) ==
    /\ job[t].kind = "qa" /\ job[t].pc = "complete"
    /\ qa_tasks' = IF qa_tasks[t].exists
                   THEN [qa_tasks EXCEPT ![t].status = "completed", ![t].progress = 100]
                   ELSE qa_tasks
    /\ job' = [job EXCEPT ![t] = Finished(job[t])]
    /\ UNCHANGED <<env, calc, docs, docjob, reorder_tasks, process_tasks, text, parsed, http, rename>>

\* Lines 1239-1244.
QaExcept(t) ==
    /\ job[t].kind = "qa" /\ job[t].pc = "except"
    /\ qa_tasks' = SetFailed(qa_tasks, t, job[t].err)
    /\ job' = [job EXCEPT ![t] = Finished(job[t])]
    /\ UNCHANGED <<env, calc, docs, docjob, reorder_tasks, process_tasks, text, parsed, http, rename>>

\* ------------------------------------------------------------ specification
\* The state after start-up: empty collections, no job scheduled.  The
\* environment (credential configured or not, LLM client package importable
\* or not) is fixed for the life of the process.
Init ==
    /\ env \in [api_key : BOOLEAN, llm_importable : BOOLEAN]
    /\ calc = NoCalc
    /\ docs = [d \in DocIds |-> AbsentDoc]
    /\ docjob = [d \in DocIds |-> IdleDocJob]
    /\ reorder_tasks = [t \in TaskIds |-> NoTask]
    /\ process_tasks = [t \in TaskIds |-> NoTask]
    /\ qa_tasks = [t \in TaskIds |-> NoTask]
    /\ job = [t \in TaskIds |-> IdleJob]
    /\ text = <<>>
    /\ parsed = NoData
    /\ http = NoResponse
    /\ rename = [r \in RenameIds |-> IdleRename]

DocStep ==
    \E d \in DocIds :
        \/ DocSetProcessing(d)
        \/ DocFind(d)
        \/ DocNoKey(d)
        \/ DocReply(d)
        \/ DocProviderError(d)
        \/ DocStore(d)
        \/ DocExcept(d)

ReorderStep ==
    \E t \in DOMAIN job :
        \/ ReorderInsert(t)
        \/ ReorderNoKey(t)
        \/ ReorderP25(t)
        \/ ReorderP50(t)
        \/ ReorderReply(t)
        \/ ReorderProviderError(t)
        \/ ReorderP75(t)
        \/ ReorderApply(t)
        \/ ReorderComplete(t)
        \/ ReorderExcept(t)

PdfStep ==
    \E t \in DOMAIN job :
        \/ PdfInsert(t)
        \/ PdfNoKey(t)
        \/ PdfP25(t)
        \/ PdfP50(t)
        \/ PdfReply(t)
        \/ PdfProviderError(t)
        \/ PdfP75(t)
        \/ PdfComplete(t)
        \/ PdfExcept(t)

ChangesStep ==
    \E t \in DOMAIN job :
        \/ ChangesInsert(t)
        \/ ChangesP25(t)
        \/ ChangesApply(t)
        \/ ChangesProgress(t)
        \/ ChangesP75(t)
        \/ ChangesComplete(t)
        \/ ChangesExcept(t)

QaStep ==
    \E t \in DOMAIN job :
        \/ QaInsert(t)
        \/ QaFindDocuments(t)
        \/ QaP50(t)
        \/ QaComplete(t)
        \/ QaExcept(t)

Next ==
    \/ \E p \in Projects : upload_document(p)
    \/ DocStep
    \/ \E p \in Projects : reorder_documents_with_ai(p)
    \/ ReorderStep
    \/ \E p \in Projects : process_documents_reorder(p)
    \/ PdfStep
    \/ \E p \in Projects : \E changes \in ChangeMaps : process_documents_rename_reorder(p, changes)
    \/ ChangesStep
    \/ \E a \in Agents : run_qa_agent(a)
    \/ QaStep
    \/ \E p \in Projects : \E t \in DOMAIN job : get_reorder_status(p, t)
    \/ \E p \in Projects : \E t \in DOMAIN job : get_process_status(p, t)
    \/ \E p \in Projects : get_project_documents(p)
    \/ \E r \in RenameIds : \E d \in DocIds : rename_document(r, d)
    \/ RenameStep

Spec == Init /\ [][Next]_vars

\* Document extraction on its own: uploads and their processing jobs.
DocNext ==
    \/ \E p \in Projects : upload_document(p)
    \/ DocStep

DocSpec == Init /\ [][DocNext]_vars

\* The batch and quality-check jobs on their own.  The process starts over a
\* database left by earlier runs: every document has been processed
\* (completed with the record of some reply, or failed), no job of the
\* earlier runs is left, and the environment is the one of this start.
CompletedDocument(d, p) ==
    [Document(d, p) EXCEPT !.status = "completed",
                           !.extracted_data = ExtractData(<<"x", "{", "m", "}">>),
                           !.processed_at = TRUE]
FailedDocument(d, p) == [Document(d, p) EXCEPT !.status = "failed"]

\* All documents but the last are completed documents of project P1; the
\* last one is that too, or a failed document, or one of another project.
LeftDocuments ==
    {[d \in DocIds |-> IF d < MaxDocs THEN CompletedDocument(d, "P1") ELSE last] :
        last \in {CompletedDocument(MaxDocs, "P1"), FailedDocument(MaxDocs, "P1"),
                  CompletedDocument(MaxDocs, "P2")}}

TaskInit ==
    /\ env \in [api_key : BOOLEAN, llm_importable : BOOLEAN]
    /\ calc = NoCalc
    /\ docs \in LeftDocuments
    /\ docjob = [d \in DocIds |-> IdleDocJob]
    /\ reorder_tasks = [t \in TaskIds |-> NoTask]
    /\ process_tasks = [t \in TaskIds |-> NoTask]
    /\ qa_tasks = [t \in TaskIds |-> NoTask]
    /\ job = [t \in TaskIds |-> IdleJob]
    /\ text = <<>>
    /\ parsed = NoData
    /\ http = NoResponse
    /\ rename = [r \in RenameIds |-> IdleRename]

TaskNext ==
    \/ \E p \in Projects : reorder_documents_with_ai(p)
    \/ ReorderStep
    \/ \E p \in Projects : process_documents_reorder(p)
    \/ PdfStep
    \/ \E p \in Projects : \E changes \in ChangeMaps : process_documents_rename_reorder(p, changes)
    \/ ChangesStep
    \/ \E a \in Agents : run_qa_agent(a)
    \/ QaStep

TaskSpec == TaskInit /\ [][TaskNext]_vars

\* The parser on its own: every reply text up to MaxLen tokens is parsed.
ParserInit ==
    /\ env = [api_key |-> TRUE, llm_importable |-> TRUE]
    /\ calc = NoCalc
    /\ docs = [d \in DocIds |-> AbsentDoc]
    /\ docjob = [d \in DocIds |-> IdleDocJob]
    /\ reorder_tasks = [t \in TaskIds |-> NoTask]
    /\ process_tasks = [t \in TaskIds |-> NoTask]
    /\ qa_tasks = [t \in TaskIds |-> NoTask]
    /\ job = [t \in TaskIds |-> IdleJob]
    /\ text \in Texts
    /\ parsed = NoData
    /\ http = NoResponse
    /\ rename = [r \in RenameIds |-> IdleRename]

\* Lines 428-439 applied to the text.
ParseReply ==
    /\ parsed = NoData
    /\ parsed' = ExtractData(text)
    /\ UNCHANGED <<env, calc, docs, docjob, reorder_tasks, process_tasks, qa_tasks, job, text, http, rename>>

ParserNext == ParseReply

ParserSpec == ParserInit /\ [][ParserNext]_vars

\* Tasks and the clients that poll them: a reorder job writes
\* db.reorder_tasks, a process-reorder job writes db.process_tasks, and a poll
\* names any project and any task id, issued or not.  The database holds
\* completed documents of both projects.
PollInit ==
    /\ env \in [api_key : BOOLEAN, llm_importable : BOOLEAN]
    /\ calc = NoCalc
    /\ docs = [d \in DocIds |-> CompletedDocument(d, IF d < MaxDocs THEN "P1" ELSE "P2")]
    /\ docjob = [d \in DocIds |-> IdleDocJob]
    /\ reorder_tasks = [t \in TaskIds |-> NoTask]
    /\ process_tasks = [t \in TaskIds |-> NoTask]
    /\ qa_tasks = [t \in TaskIds |-> NoTask]
    /\ job = [t \in TaskIds |-> IdleJob]
    /\ text = <<>>
    /\ parsed = NoData
    /\ http = NoResponse
    /\ rename = [r \in RenameIds |-> IdleRename]

PollNext ==
    \/ \E p \in Projects : reorder_documents_with_ai(p)
    \/ ReorderStep
    \/ \E p \in Projects : process_documents_reorder(p)
    \/ PdfStep
    \/ \E p \in Projects : \E t \in DOMAIN job : get_reorder_status(p, t)
    \/ \E p \in Projects : \E t \in DOMAIN job : get_process_status(p, t)

PollSpec == PollInit /\ [][PollNext]_vars

\* The document listing next to the jobs that order documents.  Of the
\* documents left by earlier runs the last one is a completed one, a failed
\* one, or one that an earlier client-driven task put first.
OrderedDocument(d, p) ==
    [CompletedDocument(d, p) EXCEPT !.display_order = 1,
                                    !.original_filename = ClientName(0, d),
                                    !.reorder_reasoning = ClientName(0, d),
                                    !.reordered_at = TRUE]

ListInit ==
    /\ env \in [api_key : BOOLEAN, llm_importable : BOOLEAN]
    /\ calc = NoCalc
    /\ docs \in {[d \in DocIds |-> IF d < MaxDocs THEN CompletedDocument(d, "P1") ELSE last] :
                    last \in {CompletedDocument(MaxDocs, "P1"), FailedDocument(MaxDocs, "P1"),
                              OrderedDocument(MaxDocs, "P1")}}
    /\ docjob = [d \in DocIds |-> IdleDocJob]
    /\ reorder_tasks = [t \in TaskIds |-> NoTask]
    /\ process_tasks = [t \in TaskIds |-> NoTask]
    /\ qa_tasks = [t \in TaskIds |-> NoTask]
    /\ job = [t \in TaskIds |-> IdleJob]
    /\ text = <<>>
    /\ parsed = NoData
    /\ http = NoResponse
    /\ rename = [r \in RenameIds |-> IdleRename]

ListNext ==
    \/ \E p \in Projects : reorder_documents_with_ai(p)
    \/ ReorderStep
    \/ \E p \in Projects : get_project_documents(p)

ListSpec == ListInit /\ [][ListNext]_vars

\* Renames next to the reorder jobs that write the same documents.
RenameNext ==
    \/ \E r \in RenameIds : \E d \in DocIds : rename_document(r, d)
    \/ RenameStep
    \/ \E p \in Projects : reorder_documents_with_ai(p)
    \/ ReorderStep

RenameSpec == TaskInit /\ [][RenameNext]_vars

\* The race scenario: reorder jobs of one project running at the same time
\* over a database whose documents are all completed documents of P1.
RaceInit ==
    /\ env \in [api_key : BOOLEAN, llm_importable : BOOLEAN]
    /\ calc = NoCalc
    /\ docs = [d \in DocIds |-> CompletedDocument(d, "P1")]
    /\ docjob = [d \in DocIds |-> IdleDocJob]
    /\ reorder_tasks = [t \in RaceIds |-> NoTask]
    /\ process_tasks = [t \in RaceIds |-> NoTask]
    /\ qa_tasks = [t \in RaceIds |-> NoTask]
    /\ job = [t \in RaceIds |-> IdleJob]
    /\ text = <<>>
    /\ parsed = NoData
    /\ http = NoResponse
    /\ rename = [r \in RenameIds |-> IdleRename]

RaceNext ==
    \/ reorder_documents_with_ai("P1")
    \/ ReorderStep

RaceSpec == RaceInit /\ [][RaceNext]_vars

\* ------------------------------------------------------------------ claims
\* The span from the first "{" to the last "}" of a text, said without the
\* pattern matcher.
HasBraces(tx) ==
    \E i, j \in 1..Len(tx) : i < j /\ tx[i] = "{" /\ tx[j] = "}"
FirstOpen(tx) ==
    CHOOSE i \in 1..Len(tx) : tx[i] = "{" /\ \A k \in 1..(i-1) : tx[k] # "{"
LastClose(tx) ==
    CHOOSE j \in 1..Len(tx) : tx[j] = "}" /\ \A k \in (j+1)..Len(tx) : tx[k] # "}"
OuterSpan(tx) == SubSeq(tx, FirstOpen(tx), LastClose(tx))
Decodable(tx) == HasBraces(tx) /\ json_loads(OuterSpan(tx)).ok
\* A reply with no "documents" list to act on.
NoUsablePlan(tx) ==
    ~Decodable(tx) \/ "documents" \notin json_loads(OuterSpan(tx)).keys

\* The record of job t in the collection its kind writes.
TaskRecord(t) ==
    IF job[t].kind = "reorder" THEN reorder_tasks[t]
    ELSE IF job[t].kind = "qa" THEN qa_tasks[t]
    ELSE process_tasks[t]
Terminal(rec) == rec.exists /\ rec.status \in {"completed", "failed"}
\* The documents whose ordering fields were last written by job t.
WrittenBy(t) ==
    {d \in DocIds : docs[d].reorder_reasoning[1] \in {"ai", "client"}
                      /\ docs[d].reorder_reasoning[2] = t}
AiBatch(t) == job[t].kind \in {"reorder", "process_pdf"}

StatusSteps ==
    {<<"uploaded", "processing">>, <<"processing", "completed">>,
     <<"processing", "failed">>}

\* C1: every change of a document's status is uploaded->processing,
\* processing->completed or processing->failed, whatever step of the
\* processing job raises.
C1_StatusForwardOnly ==
    [][\A d \in DocIds :
          (docs[d].status # "absent" /\ docs'[d].status # docs[d].status)
             => <<docs[d].status, docs'[d].status>> \in StatusSteps]_vars

\* C2: once a task record is completed or failed, no step changes its status,
\* progress, result, error or download_url.
C2_TerminalImmutable ==
    [][\A t \in TaskIds :
          /\ Terminal(reorder_tasks[t]) => reorder_tasks'[t] = reorder_tasks[t]
          /\ Terminal(process_tasks[t]) => process_tasks'[t] = process_tasks[t]
          /\ Terminal(qa_tasks[t]) => qa_tasks'[t] = qa_tasks[t]]_vars

\* A reorder task that failed on the missing credential, its job returned.
C2_Witness ==
    \E t \in TaskIds :
        /\ reorder_tasks[t].exists /\ reorder_tasks[t].status = "failed"
        /\ job[t].pc = "done"

ProgressOk(old, new) ==
    /\ new.progress >= old.progress
    /\ new.exists /\ new.progress = 100 => new.status = "completed"

\* C3: the progress values written to a task record never decrease, and
\* progress 100 implies status completed.
C3_ProgressMonotone ==
    [][\A t \in TaskIds :
          /\ ProgressOk(reorder_tasks[t], reorder_tasks'[t])
          /\ ProgressOk(process_tasks[t], process_tasks'[t])
          /\ ProgressOk(qa_tasks[t], qa_tasks'[t])]_vars

\* A client-driven task that went through its per-document progress values
\* and completed at 100.
C3_Witness ==
    \E t \in TaskIds :
        /\ job[t].kind = "changes" /\ job[t].pc = "done"
        /\ process_tasks[t].progress = 100
        /\ process_tasks[t].result.kind = "changes"
        /\ process_tasks[t].result.processed_documents = MaxDocs

\* C4: the parsing step yields the decoded map when the span from the first
\* "{" to the last "}" exists and decodes, and otherwise the record
\* {raw_response: the whole text, status: "needs_review"}; it yields one of
\* the two for every text.
C4_ParseTotal ==
    parsed # NoData =>
        parsed = IF Decodable(text)
                 THEN Structured(json_loads(OuterSpan(text)).keys)
                 ELSE Degraded(text)

\* Scenario A: prose followed by an object parses to the object's map.
C4_Witness ==
    /\ text = <<"x", "{", "m", "}">>
    /\ parsed = Structured({"vendor"})

\* C5: a document whose reply holds no decodable JSON object ends completed,
\* with the needs_review record carrying the raw text and processed_at set,
\* and is at no time marked failed.
C5_DegradedCompletes ==
    \A d \in DocIds :
        (docjob[d].response # NoMatch /\ ~Decodable(docjob[d].response)) =>
            /\ docs[d].status # "failed"
            /\ docjob[d].pc = "done" =>
                  /\ docs[d].status = "completed"
                  /\ docs[d].extracted_data = Degraded(docjob[d].response)
                  /\ docs[d].processed_at

\* Scenario B, and a reply whose braces do not decode: both completed.
C5_Witness ==
    \E d \in DocIds :
        /\ docjob[d].pc = "done"
        /\ docjob[d].response = <<"{", "m", "}", "x", "}">>
        /\ docs[d].status = "completed"
        /\ docs[d].extracted_data.status = "needs_review"

\* C6: without a credential a document's processing ends failed, with
\* extracted_data and processed_at unset, and makes no AI call.
C6_NoCredentialFails ==
    ~env.api_key =>
        \A d \in DocIds :
            /\ docjob[d].ai_calls = 0
            /\ docjob[d].pc = "done" =>
                  /\ docs[d].status = "failed"
                  /\ docs[d].extracted_data = NoData
                  /\ ~docs[d].processed_at

\* The job took the credential branch (its imports succeeded) and returned.
C6_Witness ==
    /\ ~env.api_key /\ env.llm_importable
    /\ \E d \in DocIds : docjob[d].pc = "done" /\ docs[d].status = "failed"

\* C7: for every document, processed_at is set iff status is completed, and
\* extracted_data is set iff status is completed.
C7_ProcessedIffCompleted ==
    \A d \in DocIds :
        docs[d].status # "absent" =>
            /\ docs[d].processed_at <=> docs[d].status = "completed"
            /\ docs[d].extracted_data # NoData <=> docs[d].status = "completed"

\* One document completed next to one that failed.
C7_Witness ==
    \E d1, d2 \in DocIds :
        /\ docs[d1].status = "completed" /\ docs[d1].processed_at
        /\ docs[d2].status = "failed" /\ ~docs[d2].processed_at

\* C8: an AI-driven batch task whose reply yields no usable plan (no brace
\* span, undecodable JSON, or an object without a "documents" list) ends
\* failed, never completed, and writes no document.
C8_NoPlanFails ==
    \A t \in TaskIds :
        (AiBatch(t) /\ job[t].pc = "done"
           /\ job[t].response # NoMatch /\ NoUsablePlan(job[t].response)) =>
            /\ TaskRecord(t).status = "failed"
            /\ WrittenBy(t) = {}

C10_QaNoCredentialFails ==
    ~env.api_key =>
        \A t \in TaskIds :
            (job[t].kind = "qa" /\ job[t].pc = "done" /\ qa_tasks[t].exists) =>
                qa_tasks[t].status = "failed"

\* The plan entries job t applied or is applying: its decoded plan while it
\* runs, the documents of its result once it completed.
PlanOf(t) ==
    IF job[t].pc = "done"
    THEN IF reorder_tasks[t].status = "completed"
         THEN reorder_tasks[t].result.documents ELSE <<>>
    ELSE job[t].ai_result.documents

\* Every document named by task t's plan shows the display_order of that plan.
OrderMatches(t) ==
    \A i \in 1..Len(PlanOf(t)) :
        docs[PlanOf(t)[i].id].display_order = PlanOf(t)[i].new_order

\* What holds of the documents and records in every state of the race.
RaceState ==
    /\ \A t \in RaceIds :
          (job[t].pc = "done" /\ reorder_tasks[t].exists) => Terminal(reorder_tasks[t])
    /\ \A d \in DocIds :
          docs[d].reordered_at =>
              LET t == docs[d].reorder_reasoning[2]
                  i == docs[d].reorder_reasoning[3]
              IN  /\ docs[d].reorder_reasoning = AiName(t, i)
                  /\ docs[d].original_filename = AiName(t, i)
                  /\ (job[t].pc # "done" \/ reorder_tasks[t].status = "completed") =>
                        /\ i <= Len(PlanOf(t))
                        /\ PlanOf(t)[i].id = d
                        /\ PlanOf(t)[i].new_order = docs[d].display_order

\* What the step of task t that handles a plan entry leaves in the document.
RaceWrite ==
    \A t \in RaceIds :
        (job[t].pc = "apply" /\ job'[t] # job[t]) =>
            LET i == job[t].idx
                e == job[t].ai_result.documents[i]
            IN  /\ docs'[e.id].display_order = e.new_order
                /\ docs'[e.id].original_filename = AiName(t, i)
                /\ docs'[e.id].reorder_reasoning = AiName(t, i)
                /\ docs'[e.id].reordered_at
                /\ \A d \in DocIds \ {e.id} : docs'[d] = docs[d]

\* C11: of reorder tasks of one project that run at the same time, each one
\* that created its record is completed or failed once its job has returned;
\* a task's write of a document replaces whatever another task wrote there,
\* so every reordered document holds the four ordering fields of one plan
\* entry of the task that wrote it last, never a mix of two tasks' writes.
C11_RaceLastWriteWins == [](RaceState) /\ [][RaceWrite]_vars

\* The race observed: two tasks completed with every document in their plans,
\* one document last written by each, and the display orders of the
\* documents as a whole are those of neither plan.
C11_Witness ==
    \E t1, t2 \in RaceIds :
        /\ t1 # t2
        /\ job[t1].pc = "done" /\ reorder_tasks[t1].status = "completed"
        /\ job[t2].pc = "done" /\ reorder_tasks[t2].status = "completed"
        /\ reorder_tasks[t1].result.total_processed = MaxDocs
        /\ reorder_tasks[t2].result.total_processed = MaxDocs
        /\ WrittenBy(t1) # {} /\ WrittenBy(t2) # {}
        /\ ~OrderMatches(t1) /\ ~OrderMatches(t2)

Polls == {"get_reorder_status", "get_process_status"}
\* The record a poll response was read from.
Polled(resp) ==
    IF resp.op = "get_reorder_status" THEN reorder_tasks[resp.task_id]
    ELSE process_tasks[resp.task_id]

\* C12: a poll answers not_found whenever no record with its task_id exists
\* for its project, also when the task_id is that of another project's task;
\* any other answer carries the status, progress, result or download_url and
\* error of a record of the project polled.
C12_PollScoped ==
    [][(http' # http /\ http'.op \in Polls) =>
          IF Polled(http').exists /\ Polled(http').subject_id = http'.project_id
          THEN /\ http'.status = Polled(http').status
               /\ http'.progress = Polled(http').progress
               /\ http'.error = Polled(http').error
               /\ http'.op = "get_reorder_status" => http'.result = ResultOrEmpty(Polled(http'))
               /\ http'.op = "get_process_status" =>
                     http'.download_url = Polled(http').download_url
          ELSE http' = NotFound(http'.op, http'.project_id, http'.task_id)]_vars

\* A completed reorder task polled under another project's id: not_found.
C12_Witness ==
    /\ http.op = "get_reorder_status" /\ http.status = "not_found"
    /\ reorder_tasks[http.task_id].status = "completed"
    /\ reorder_tasks[http.task_id].subject_id # http.project_id

\* What a poll of job t's own project and task id returns.
StatusOf(t) ==
    IF job[t].kind = "reorder" THEN ReorderStatus(job[t].project_id, t)
    ELSE ProcessStatus(job[t].project_id, t)
Batch(t) == job[t].kind \in {"reorder", "process_pdf", "changes"}

\* C13: a batch job that caught an exception, at whatever step it was raised
\* (the steps before the insert of the task record included), leaves a task
\* that a poll shows as failed with the exception's message in error.
C13_ExceptionFails ==
    \A t \in TaskIds :
        (Batch(t) /\ job[t].pc = "done" /\ job[t].err # "") =>
            /\ StatusOf(t).status = "failed"
            /\ StatusOf(t).error = job[t].err

\* The position of document d in a listing.
Pos(l, d) == CHOOSE i \in 1..Len(l) : l[i] = d
Ordered(d) == docs[d].display_order # 0

\* The plan a completed reorder task applied names every completed document
\* of the project once, with distinct new_order values.
GoodPlan(t) ==
    LET plan == reorder_tasks[t].result.documents
    IN  /\ {plan[i].id : i \in 1..Len(plan)}
              = {d \in DocIds : docs[d].status = "completed"
                                  /\ docs[d].project_id = job[t].project_id}
        /\ \A i, j \in 1..Len(plan) :
              i # j => plan[i].id # plan[j].id /\ plan[i].new_order # plan[j].new_order

\* C14: once a reorder task has completed with a plan that names each
\* gathered document once with distinct new_order values, and while no later
\* task has written these documents, the listing of the project returns them
\* in increasing new_order, and result.total_processed is the number of plan
\* entries.
C14_ListingFollowsPlan ==
    \A t \in TaskIds :
        (job[t].kind = "reorder" /\ job[t].pc = "done"
           /\ reorder_tasks[t].status = "completed" /\ GoodPlan(t)
           /\ \A i \in 1..Len(reorder_tasks[t].result.documents) :
                 reorder_tasks[t].result.documents[i].id \in WrittenBy(t)) =>
            LET plan == reorder_tasks[t].result.documents
                l == ListDocuments(job[t].project_id)
            IN  /\ reorder_tasks[t].result.total_processed = Len(plan)
                /\ \A i, j \in 1..Len(plan) :
                      plan[i].new_order < plan[j].new_order =>
                          Pos(l, plan[i].id) < Pos(l, plan[j].id)

\* Scenario D: the plan that reverses the upload order was applied to every
\* document, and the listing returned since starts with the last upload.
C14_Witness ==
    \E t \in TaskIds :
        /\ job[t].kind = "reorder" /\ job[t].pc = "done"
        /\ reorder_tasks[t].status = "completed" /\ GoodPlan(t)
        /\ reorder_tasks[t].result.total_processed = MaxDocs
        /\ WrittenBy(t) = DocIds
        /\ http.op = "get_project_documents" /\ http.project_id = job[t].project_id
        /\ Len(http.documents) = MaxDocs
        /\ http.documents[1] = MaxDocs /\ http.documents[MaxDocs] = 1

\* A listing is the project's documents, each once, no unordered document
\* before an ordered one, the ordered ones by display_order and the unordered
\* ones by created_at.
ListOk(l, p) ==
    /\ {l[i] : i \in 1..Len(l)}
          = {d \in DocIds : docs[d].status # "absent" /\ docs[d].project_id = p}
    /\ \A i, j \in 1..Len(l) :
          i < j =>
              /\ l[i] # l[j]
              /\ Ordered(l[j]) => Ordered(l[i])
              /\ (Ordered(l[i]) /\ Ordered(l[j])) =>
                    docs[l[i]].display_order <= docs[l[j]].display_order
              /\ (~Ordered(l[i]) /\ ~Ordered(l[j])) =>
                    docs[l[i]].created_at <= docs[l[j]].created_at

\* C15: the listing of a project returns every document that has a
\* display_order before every document that has none, the ordered ones by
\* increasing display_order and the unordered ones by increasing created_at.
C15_ListingOrder == \A p \in Projects : ListOk(ListDocuments(p), p)

\* A listing returned that starts with an ordered document uploaded after
\* the unordered document it ends with.
C15_Witness ==
    /\ http.op = "get_project_documents"
    /\ http.documents = ListDocuments(http.project_id)
    /\ Len(http.documents) = MaxDocs
    /\ Ordered(http.documents[1]) /\ ~Ordered(http.documents[MaxDocs])
    /\ docs[http.documents[1]].created_at > docs[http.documents[MaxDocs]].created_at

ResultErrorOk(rec) ==
    rec.exists =>
        /\ rec.result # NoResult <=> rec.status = "completed"
        /\ rec.error # "" <=> rec.status = "failed"

\* C16: in every state and for every task record of every collection, result
\* is present iff status is completed and error is present iff status is
\* failed.
C16_ResultIffCompleted ==
    \A t \in TaskIds :
        /\ ResultErrorOk(reorder_tasks[t])
        /\ ResultErrorOk(process_tasks[t])
        /\ ResultErrorOk(qa_tasks[t])

Enqueues ==
    {"reorder_documents_with_ai", "process_documents_reorder",
     "process_documents_rename_reorder"}

\* C17: the step in which an enqueue endpoint answers issues a task id no
\* job ran under, gathers at least one document, all completed documents of
\* the project, reports their number and status "processing", and leaves the
\* job at its start: no task record inserted, no AI call made, no document
\* or task record written.
C17_EnqueueReturnsFirst ==
    [][(http' # http /\ http'.op \in Enqueues) =>
          LET t == http'.task_id
          IN  /\ job[t].pc = "idle"
              /\ job'[t].pc = "start" /\ job'[t].ai_calls = 0
              /\ job'[t].project_id = http'.project_id
              /\ http'.status = "processing"
              /\ http'.documents_count = Len(job'[t].documents)
              /\ http'.documents_count >= 1
              /\ \A i \in 1..Len(job'[t].documents) :
                    /\ docs[job'[t].documents[i].id].status = "completed"
                    /\ docs[job'[t].documents[i].id].project_id = http'.project_id
              /\ ~reorder_tasks'[t].exists /\ ~process_tasks'[t].exists
              /\ UNCHANGED <<docs, reorder_tasks, process_tasks, qa_tasks>>]_vars

\* A client-driven enqueue answered for every document, its job not started.
C17_Witness ==
    /\ http.op = "process_documents_rename_reorder"
    /\ http.documents_count = MaxDocs /\ http.status = "processing"
    /\ job[http.task_id].pc = "start"
    /\ ~process_tasks[http.task_id].exists

\* C18: a poll changes no task record and no document, and what a poll of
\* (project, task id) returns does not change any more once the record it
\* reads is completed or failed, so two polls made after that are identical.
C18_PollIdempotent ==
    [][/\ (http' # http /\ http'.op \in Polls) =>
             UNCHANGED <<docs, reorder_tasks, process_tasks, qa_tasks>>
       /\ \A t \in TaskIds :
             /\ Terminal(reorder_tasks[t]) =>
                   ReorderStatus(reorder_tasks[t].subject_id, t)'
                     = ReorderStatus(reorder_tasks[t].subject_id, t)
             /\ Terminal(process_tasks[t]) =>
                   ProcessStatus(process_tasks[t].subject_id, t)'
                     = ProcessStatus(process_tasks[t].subject_id, t)]_vars

\* A poll answered from a completed process task, as a poll now would be.
C18_Witness ==
    /\ http.op = "get_process_status" /\ http.status = "completed"
    /\ http.progress = 100 /\ http.download_url
    /\ http = ProcessStatus(http.project_id, http.task_id)

\* C19: a rename_document call that succeeds returns the document with
\* original_filename equal to the new_name it was given, whatever batch jobs
\* or other renames write the document meanwhile.
C19_RenameReturnsNewName ==
    [][\A r \in RenameIds :
          (rename[r].pc = "read" /\ rename'[r].pc = "done") =>
              /\ http'.code = 200
              /\ http'.original_filename = rename[r].new_name]_vars

\* What holds of a client-driven job in every state: no AI call, and once
\* it has returned it completed with every gathered document processed,
\* unless a value of the change map was not a dict.
ChangesState ==
    \A t \in TaskIds :
        job[t].kind = "changes" =>
            /\ job[t].ai_calls = 0
            /\ job[t].pc = "done" =>
                  \/ /\ job[t].err = ""
                     /\ process_tasks[t].status = "completed"
                     /\ process_tasks[t].result.processed_documents
                           = process_tasks[t].result.total_documents
                     /\ process_tasks[t].result.total_documents >= 1
                  \/ /\ job[t].err = "AttributeError"
                     /\ process_tasks[t].status = "failed"

\* What the step of job t that handles one document writes: the newOrder and
\* newName of the document's entry in the map, or 1 and the name it had.
ChangesWrite ==
    \A t \in TaskIds :
        (job[t].kind = "changes" /\ job[t].pc = "apply" /\ job'[t] # job[t]) =>
            LET document == job[t].documents[job[t].idx]
                change == job[t].changes[document.id]
            IN  /\ docs'[document.id].display_order
                      = (IF change.newOrder = 0 THEN 1 ELSE change.newOrder)
                /\ docs'[document.id].original_filename
                      = (IF change.hasName THEN ClientName(t, document.id)
                         ELSE document.original_filename)
                /\ docs'[document.id].reordered_at

\* C20: the client-driven job makes no AI call and does not depend on the
\* credential or on the LLM client: in every environment it applies the map
\* it was given to the gathered documents and completes.
C20_ClientJobNeedsNoAi == [](ChangesState) /\ [][ChangesWrite]_vars

\* Without credential and without the LLM client package, a client-driven
\* task completed after it wrote every document.
C20_Witness ==
    /\ ~env.api_key /\ ~env.llm_importable
    /\ \E t \in TaskIds :
          /\ job[t].kind = "changes" /\ job[t].pc = "done"
          /\ process_tasks[t].status = "completed"
          /\ process_tasks[t].result.processed_documents = MaxDocs
          /\ WrittenBy(t) = DocIds

TaskStatuses == {"processing", "completed", "failed"}
RecordOk(old, new) ==
    /\ (~old.exists /\ new.exists) => (new.status = "processing" /\ new.progress = 0)
    /\ new.exists => (new.status \in TaskStatuses /\ new.progress \in 0..100)

\* C21: every task record is created with status processing and progress 0,
\* and in every state its status is processing, completed or failed and its
\* progress lies in 0..100.
C21_TaskRecordShape ==
    [][\A t \in TaskIds :
          /\ RecordOk(reorder_tasks[t], reorder_tasks'[t])
          /\ RecordOk(process_tasks[t], process_tasks'[t])
          /\ RecordOk(qa_tasks[t], qa_tasks'[t])]_vars

\* A quality-check record just inserted.
C21_Witness ==
    \E t \in TaskIds :
        /\ job[t].kind = "qa" /\ job[t].pc = "find_documents"
        /\ qa_tasks[t].exists
        /\ qa_tasks[t].status = "processing" /\ qa_tasks[t].progress = 0

\* The ids of the documents handed to job t when it was enqueued.
Gathered(t) == {job[t].documents[i].id : i \in 1..Len(job[t].documents)}

\* C22: every document a batch job writes is one of the completed documents
\* of the job's own project gathered when the job was enqueued; no plan entry
\* causes a write outside that list or in another project.
C22_WritesWithinGathered ==
    [][\A d \in DocIds :
          docs'[d] # docs[d] =>
              \E t \in DOMAIN job :
                  /\ Batch(t) /\ job'[t] # job[t]
                  /\ d \in Gathered(t)
                  /\ docs[d].project_id = job[t].project_id]_vars

\* C23: a completed AI-driven batch task (reorder or process-reorder) has
\* written every entry of its plan onto the document the entry names.
C23_CompletedPlanWritten ==
    \A t \in TaskIds :
        (AiBatch(t) /\ TaskRecord(t).exists /\ TaskRecord(t).status = "completed") =>
            \A i \in 1..Len(TaskRecord(t).result.documents) :
                LET e == TaskRecord(t).result.documents[i]
                IN  docs[e.id].status # "absent" =>
                        /\ docs[e.id].reordered_at
                        /\ docs[e.id].display_order # 0

\* C24: an AI-driven job whose task shows progress 50 or more has received
\* the reply of its AI call.
C24_Progress50AfterReply ==
    \A t \in TaskIds :
        (AiBatch(t) /\ TaskRecord(t).exists /\ TaskRecord(t).progress >= 50) =>
            /\ job[t].pc # "ai"
            /\ job[t].response # NoMatch

\* C25: a reorder task that shows progress 75 has applied every entry of its
\* plan.
C25_Progress75AfterPlan ==
    \A t \in TaskIds :
        (job[t].kind = "reorder" /\ job[t].pc # "done"
            /\ reorder_tasks[t].exists /\ reorder_tasks[t].progress = 75) =>
            \A i \in 1..Len(job[t].ai_result.documents) :
                /\ job[t].idx > i
                /\ docs[job[t].ai_result.documents[i].id].reordered_at

\* ------------------------------------------- documents and batch jobs at once
\* Uploads and their processing jobs run while reorder and client-driven jobs
\* run.  The database holds the completed documents of project P1 left by
\* earlier runs; the last document id is still to be uploaded, into the same
\* project.
MixedInit ==
    /\ env \in [api_key : BOOLEAN, llm_importable : BOOLEAN]
    /\ calc = NoCalc
    /\ docs = [d \in DocIds |-> IF d < MaxDocs THEN CompletedDocument(d, "P1") ELSE AbsentDoc]
    /\ docjob = [d \in DocIds |-> IdleDocJob]
    /\ reorder_tasks = [t \in TaskIds |-> NoTask]
    /\ process_tasks = [t \in TaskIds |-> NoTask]
    /\ qa_tasks = [t \in TaskIds |-> NoTask]
    /\ job = [t \in TaskIds |-> IdleJob]
    /\ text = <<>>
    /\ parsed = NoData
    /\ http = NoResponse
    /\ rename = [r \in RenameIds |-> IdleRename]

MixedNext ==
    \/ upload_document("P1")
    \/ DocStep
    \/ \E p \in Projects : reorder_documents_with_ai(p)
    \/ ReorderStep
    \/ \E p \in Projects : \E changes \in ChangeMaps : process_documents_rename_reorder(p, changes)
    \/ ChangesStep

MixedSpec == MixedInit /\ [][MixedNext]_vars

\* C26: a step of a batch job leaves every document's status, extracted_data
\* and processed_at as they were, and a step of a document job leaves every
\* document's display_order, reorder_reasoning, reordered_at and
\* original_filename as they were.
C26_DisjointFields ==
    [][\A d \in DocIds :
          docs[d].status # "absent" =>
              /\ job' # job =>
                    /\ docs'[d].status = docs[d].status
                    /\ docs'[d].extracted_data = docs[d].extracted_data
                    /\ docs'[d].processed_at = docs[d].processed_at
              /\ docjob' # docjob =>
                    /\ docs'[d].display_order = docs[d].display_order
                    /\ docs'[d].reorder_reasoning = docs[d].reorder_reasoning
                    /\ docs'[d].reordered_at = docs[d].reordered_at
                    /\ docs'[d].original_filename = docs[d].original_filename]_vars

\* A document that a batch job ordered while its own job was extracting it,
\* and that its job then completed.
C26_Witness ==
    \E d \in DocIds :
        /\ docjob[d].pc = "done" /\ docjob[d].ai_calls = 1
        /\ docs[d].status = "completed" /\ docs[d].processed_at
        /\ docs[d].reordered_at /\ docs[d].display_order # 0

\* ------------------------------------------------- jobs under a fair scheduler
\* The event loop runs every task created by asyncio.create_task (lines 350,
\* 560, 869, 1090) whenever it can take a step, and every awaited call
\* (storage or AI) eventually returns or raises: each job's next step is
\* weakly fair.
DocJob(d) ==
    \/ DocSetProcessing(d)
    \/ DocFind(d)
    \/ DocNoKey(d)
    \/ DocReply(d)
    \/ DocProviderError(d)
    \/ DocStore(d)
    \/ DocExcept(d)

BatchJob(t) ==
    \/ ReorderInsert(t) \/ ReorderNoKey(t) \/ ReorderP25(t) \/ ReorderP50(t)
    \/ ReorderReply(t) \/ ReorderProviderError(t) \/ ReorderP75(t)
    \/ ReorderApply(t) \/ ReorderComplete(t) \/ ReorderExcept(t)
    \/ PdfInsert(t) \/ PdfNoKey(t) \/ PdfP25(t) \/ PdfP50(t) \/ PdfReply(t)
    \/ PdfProviderError(t) \/ PdfP75(t) \/ PdfComplete(t) \/ PdfExcept(t)
    \/ ChangesInsert(t) \/ ChangesP25(t) \/ ChangesApply(t) \/ ChangesProgress(t)
    \/ ChangesP75(t) \/ ChangesComplete(t) \/ ChangesExcept(t)

LiveNext ==
    \/ \E p \in Projects : upload_document(p)
    \/ \E d \in DocIds : DocJob(d)
    \/ \E p \in Projects : reorder_documents_with_ai(p)
    \/ \E p \in Projects : process_documents_reorder(p)
    \/ \E p \in Projects : \E changes \in ChangeMaps : process_documents_rename_reorder(p, changes)
    \/ \E t \in TaskIds : BatchJob(t)

LiveSpec ==
    /\ MixedInit
    /\ [][LiveNext]_vars
    /\ \A d \in DocIds : WF_vars(DocJob(d))
    /\ \A t \in TaskIds : WF_vars(BatchJob(t))

\* C27: under a fair scheduler and AI calls that return or raise, every
\* uploaded document eventually is completed or failed, and every created
\* reorder, process-reorder and client-driven task eventually is completed or
\* failed.
C27_JobsTerminate ==
    /\ \A d \in DocIds :
          (docs[d].status \in {"uploaded", "processing"})
              ~> (docs[d].status \in {"completed", "failed"})
    /\ \A t \in TaskIds :
          (Batch(t) /\ TaskRecord(t).exists /\ TaskRecord(t).status = "processing")
              ~> Terminal(TaskRecord(t))

\* An uploaded document whose job has returned after its AI call, next to a
\* task whose job has returned.
C27_Witness ==
    /\ \E d \in DocIds :
          /\ docjob[d].pc = "done" /\ docjob[d].ai_calls = 1
          /\ docs[d].status \in {"completed", "failed"}
    /\ \E t \in TaskIds :
          /\ Batch(t) /\ job[t].pc = "done"
          /\ Terminal(TaskRecord(t))

\* C28: no job calls the AI more than once, and once a document or a task
\* record is failed it stays failed and its job makes no further step: no
\* AI call, no retry, no status change.
C28_SingleCallNoRetry ==
    /\ [](/\ \A d \in DocIds : docjob[d].ai_calls <= 1
          /\ \A t \in TaskIds : job[t].ai_calls <= 1)
    /\ [][/\ \A d \in DocIds :
                docs[d].status = "failed" =>
                    /\ docs'[d].status = "failed"
                    /\ docjob'[d] = docjob[d]
          /\ \A t \in TaskIds :
                (TaskRecord(t).exists /\ TaskRecord(t).status = "failed") =>
                    /\ TaskRecord(t)' = TaskRecord(t)
                    /\ job'[t] = job[t]]_vars

\* A document and a task both failed by an AI call that raised.
C28_Witness ==
    /\ \E d \in DocIds :
          /\ docs[d].status = "failed"
          /\ docjob[d].pc = "done" /\ docjob[d].ai_calls = 1
    /\ \E t \in TaskIds :
          /\ job[t].kind = "reorder" /\ job[t].pc = "done" /\ job[t].ai_calls = 1
          /\ reorder_tasks[t].status = "failed"

\* C29: a document whose AI call raised a transport or provider error ends
\* failed and is otherwise the document as uploaded: extracted_data and
\* processed_at unset, and nothing of the error stored on it.
C29_ProviderErrorFails ==
    \A d \in DocIds :
        (docjob[d].err = "ProviderError" /\ docjob[d].pc = "done") =>
            /\ docs[d] = [Document(d, docs[d].project_id) EXCEPT !.status = "failed"]
            /\ docs[d].extracted_data = NoData
            /\ ~docs[d].processed_at

\* A document job that made its AI call, saw it raise and has returned.
C29_Witness ==
    \E d \in DocIds :
        /\ docjob[d].err = "ProviderError" /\ docjob[d].pc = "done"
        /\ docjob[d].ai_calls = 1 /\ docjob[d].response = NoMatch
        /\ docs[d].status = "failed"

\* A '}' somewhere after the first '{'.
CloseAfterFirstOpen(tx) ==
    /\ \E i \in 1..Len(tx) : tx[i] = "{"
    /\ \E j \in (FirstOpen(tx) + 1)..Len(tx) : tx[j] = "}"

\* C30: the span handed to the JSON decoder runs exactly from the first '{'
\* of the reply to its last '}', and a span is found if and only if the reply
\* has a '}' somewhere after its first '{'.
C30_SpanFirstOpenToLastClose ==
    /\ (re_search(text) # NoMatch) <=> CloseAfterFirstOpen(text)
    /\ (re_search(text) # NoMatch) =>
          re_search(text) = SubSeq(text, FirstOpen(text), LastClose(text))

\* A reply with a '}' before its first '{' and an inner '}' before its last:
\* the span { } } is taken whole and does not decode.
C30_Witness ==
    /\ text = <<"}", "{", "}", "}">>
    /\ re_search(text) = <<"{", "}", "}">>
    /\ parsed = Degraded(text)

\* ------------------------------------------ the enqueue endpoints as a whole
\* A request names any project id, existing or not, and comes from a staff
\* user or from a client user of the company that owns P1.
RequestProjects == Projects \cup {"P0"}
\* The change maps over all document ids: every value a full change, or the
\* last value no dict.
WholeChangeMaps ==
    {c \in ChangeMaps : DOMAIN c = DocIds /\ c[1] = NamedChange(1)}

\* The document_changes form field: a JSON object, or text json.loads rejects.
Payloads ==
    {[json |-> TRUE, changes |-> c] : c \in WholeChangeMaps}
      \cup {[json |-> FALSE, changes |-> <<>>]}

\* raise HTTPException(status_code=code, ...).
HttpError(op, code, p) ==
    [NoResponse EXCEPT !.op = op, !.code = code, !.project_id = p]

\* The project lookup and the access check that open every endpoint:
\* 404, 403, or 0 when the request may go on.
AccessError(p, user) ==
    IF p \notin Projects THEN 404
    ELSE IF user.role = "client" /\ user.company_id # (IF p = "P1" THEN "A" ELSE "B") THEN 403
    ELSE 0

\* The endpoint with the job scheduled before the documents are counted.
ReorderRequestScheduleFirst(p, user) ==
    IF AccessError(p, user) # 0
    THEN /\ http' = HttpError("reorder_documents_with_ai", AccessError(p, user), p)
         /\ UNCHANGED <<env, calc, docs, docjob, reorder_tasks, process_tasks, qa_tasks, job,
                        text, parsed, rename>>
    ELSE IF Len(CompletedDocuments(p)) = 0
    THEN /\ \E t \in DOMAIN job :
              /\ FreshTaskId(t)
              /\ job' = [job EXCEPT ![t] = [IdleJob EXCEPT !.kind = "reorder", !.pc = "start",
                                                           !.project_id = p]]
         /\ http' = HttpError("reorder_documents_with_ai", 400, p)
         /\ UNCHANGED <<env, calc, docs, docjob, reorder_tasks, process_tasks, qa_tasks,
                        text, parsed, rename>>
    ELSE reorder_documents_with_ai(p)

\* Lines 534-567, rejections included.
ReorderRequest(p, user) ==
    IF AccessError(p, user) # 0
    THEN /\ http' = HttpError("reorder_documents_with_ai", AccessError(p, user), p)
         /\ UNCHANGED <<env, calc, docs, docjob, reorder_tasks, process_tasks, qa_tasks, job,
                        text, parsed, rename>>
    ELSE IF Len(CompletedDocuments(p)) = 0
    THEN /\ http' = HttpError("reorder_documents_with_ai", 400, p)
         /\ UNCHANGED <<env, calc, docs, docjob, reorder_tasks, process_tasks, qa_tasks, job,
                        text, parsed, rename>>
    ELSE reorder_documents_with_ai(p)

\* Lines 836-876, rejections included.
ChangesRequest(p, user, payload) ==
    IF AccessError(p, user) # 0
    THEN /\ http' = HttpError("process_documents_rename_reorder", AccessError(p, user), p)
         /\ UNCHANGED <<env, calc, docs, docjob, reorder_tasks, process_tasks, qa_tasks, job,
                        text, parsed, rename>>
    ELSE IF ~payload.json \/ Len(ChangedFrom(p, DOMAIN payload.changes, 1)) = 0
    THEN /\ http' = HttpError("process_documents_rename_reorder", 400, p)
         /\ UNCHANGED <<env, calc, docs, docjob, reorder_tasks, process_tasks, qa_tasks, job,
                        text, parsed, rename>>
    ELSE process_documents_rename_reorder(p, payload.changes)

EnqueueNext ==
    \/ \E p \in RequestProjects :
          \E user \in {[role |-> "staff", company_id |-> ""],
                       [role |-> "client", company_id |-> "A"]} :
              ReorderRequest(p, user)
    \/ ReorderStep
    \/ \E p \in RequestProjects :
          \E user \in {[role |-> "staff", company_id |-> ""],
                       [role |-> "client", company_id |-> "A"]} :
              \E payload \in Payloads : ChangesRequest(p, user, payload)
    \/ ChangesStep

EnqueueSpec == TaskInit /\ [][EnqueueNext]_vars

Rejected(resp) ==
    /\ resp.op \in {"reorder_documents_with_ai", "process_documents_rename_reorder"}
    /\ resp.code \in {400, 403, 404}

\* C31: a step in which an enqueue request is rejected (project not found,
\* access denied, change payload that is no JSON, no completed document)
\* creates no task record, schedules no job and changes no document.
C31_RejectedEnqueueNoEffect ==
    [][(Rejected(http') /\ http' # http) =>
          /\ job' = job
          /\ docs' = docs
          /\ reorder_tasks' = reorder_tasks
          /\ process_tasks' = process_tasks]_vars

\* A rejected client-driven request while an earlier job is at work.
C31_Witness ==
    /\ Rejected(http) /\ http.code = 400
    /\ http.op = "process_documents_rename_reorder"
    /\ \E t \in TaskIds : job[t].pc \notin {"idle", "done"}

\* --------------------------------------------- get_dashboard_stats (462-482)
\* count_documents({"status": st}).
CountStatus(st) == Cardinality({d \in DocIds : docs[d].status = st})
\* The document counters of the staff dashboard.
get_dashboard_stats ==
    [documents_total |-> Cardinality({d \in DocIds : docs[d].status # "absent"}),
     documents_completed |-> CountStatus("completed"),
     documents_failed |-> CountStatus("failed"),
     documents_processing |-> CountStatus("processing"),
     documents_needs_review |-> CountStatus("needs_review")]

DocStatuses == {"uploaded", "processing", "completed", "failed"}

Rendered(p) == Cardinality({d \in DocIds : docs[d].status = "completed" /\ docs[d].project_id = p})

\* The endpoint that looks the task up by task_id alone.
DownloadAnyProject(p, t) ==
    /\ http' = IF p \in Projects
                    /\ t \in DOMAIN process_tasks /\ process_tasks[t].exists
                    /\ process_tasks[t].status = "completed"
               THEN [NoResponse EXCEPT !.op = "download_processed_documents", !.code = 200,
                                       !.project_id = p, !.task_id = t,
                                       !.documents_count = Rendered(p)]
               ELSE [NoResponse EXCEPT !.op = "download_processed_documents", !.code = 404,
                                       !.project_id = p, !.task_id = t]
    /\ UNCHANGED <<env, calc, docs, docjob, reorder_tasks, process_tasks, qa_tasks, job, text, parsed, rename>>

\* Lines 885-894, for a staff caller: 404 for an unknown project, then
\* find_one({task_id, project_id}); 404 unless it is a completed task.
\* Lines 896-970: the rendering of the project's completed
\* documents, as PDF or as text.
download_processed_documents(p, t) ==
    /\ http' = IF p \in Projects
                    /\ t \in DOMAIN process_tasks /\ process_tasks[t].exists
                    /\ process_tasks[t].subject_id = p
                    /\ process_tasks[t].status = "completed"
               THEN [NoResponse EXCEPT !.op = "download_processed_documents", !.code = 200,
                                       !.project_id = p, !.task_id = t,
                                       !.documents_count = Rendered(p)]
               ELSE [NoResponse EXCEPT !.op = "download_processed_documents", !.code = 404,
                                       !.project_id = p, !.task_id = t]
    /\ UNCHANGED <<env, calc, docs, docjob, reorder_tasks, process_tasks, qa_tasks, job, text, parsed, rename>>

\* The process tasks of both kinds, their poll and the download.
DownloadNext ==
    \/ \E p \in Projects : process_documents_reorder(p)
    \/ PdfStep
    \/ \E p \in Projects : \E changes \in WholeChangeMaps : process_documents_rename_reorder(p, changes)
    \/ ChangesStep
    \/ \E p \in Projects : \E t \in DOMAIN job : get_process_status(p, t)
    \/ \E p \in RequestProjects : \E t \in DOMAIN job : download_processed_documents(p, t)

DownloadSpec == PollInit /\ [][DownloadNext]_vars

RecordsOf(t) ==
    Cardinality({c \in {"reorder", "process", "qa"} :
                    IF c = "reorder" THEN reorder_tasks[t].exists
                    ELSE IF c = "process" THEN process_tasks[t].exists
                    ELSE qa_tasks[t].exists})

\* C34: at most one record exists per task id, it is the record of the job
\* that was issued the id, and a record is inserted or changed only by a step
\* of that job: no step of one job changes another task's status, progress,
\* result or error.
C34_OwnRecordOnly ==
    /\ [](\A t \in DOMAIN job :
            /\ RecordsOf(t) <= 1
            /\ RecordsOf(t) = 1 =>
                  /\ job[t].pc # "idle"
                  /\ TaskRecord(t).exists
                  /\ TaskRecord(t).subject_id = job[t].project_id)
    /\ [][\A t \in DOMAIN job :
            (\/ reorder_tasks'[t] # reorder_tasks[t]
             \/ process_tasks'[t] # process_tasks[t]
             \/ qa_tasks'[t] # qa_tasks[t])
                => /\ job[t].pc \notin {"idle", "done"}
                   /\ job'[t] # job[t]
                   /\ \A t2 \in DOMAIN job \ {t} : job'[t2] = job[t2]]_vars

\* Two overlapping tasks at different points: one completed, one at 25.
C34_Witness ==
    \E t1, t2 \in DOMAIN job :
        /\ t1 # t2
        /\ reorder_tasks[t1].exists /\ reorder_tasks[t1].status = "completed"
        /\ reorder_tasks[t2].exists /\ reorder_tasks[t2].status = "processing"
        /\ reorder_tasks[t2].progress = 25

\* C35: the task record is inserted by the job, not by the enqueue call, so
\* a poll of an issued task id can answer not_found (the witness); once a
\* record exists for (project, task id), so that a poll of the pair answers
\* something else, no later poll of that pair answers not_found.
C35_FoundStaysFound ==
    [][\A t \in DOMAIN job :
          /\ reorder_tasks[t].exists
                => ReorderStatus(reorder_tasks[t].subject_id, t)'.status # "not_found"
          /\ process_tasks[t].exists
                => ProcessStatus(process_tasks[t].subject_id, t)'.status # "not_found"]_vars

\* The enqueue call has issued task id t for the project, its job has not
\* run yet, and the poll of the pair has answered not_found.
C35_Witness ==
    \E t \in DOMAIN job :
        /\ job[t].kind = "reorder" /\ job[t].pc = "start"
        /\ http = NotFound("get_reorder_status", job[t].project_id, t)
        /\ ~reorder_tasks[t].exists

\* C36: a reorder job that raises at plan entry k has progress 75 and has
\* written the entries before k; the handler fails the task and leaves those
\* writes on the documents.  A reorder task that failed with progress below
\* 75 has written no document.
C36_NoRollback ==
    /\ [](\A t \in DOMAIN job :
            /\ (job[t].kind = "reorder" /\ job[t].pc = "except" /\ job[t].err = "KeyError") =>
                  /\ reorder_tasks[t].progress = 75
                  /\ \A i \in 1..(job[t].idx - 1) :
                        /\ docs[job[t].ai_result.documents[i].id].reordered_at
                        /\ docs[job[t].ai_result.documents[i].id].display_order # 0
            /\ (job[t].kind = "reorder" /\ job[t].pc = "done" /\ job[t].err = "KeyError") =>
                  /\ reorder_tasks[t].status = "failed"
                  /\ reorder_tasks[t].progress = 75
            /\ (job[t].kind = "reorder" /\ reorder_tasks[t].exists
                   /\ reorder_tasks[t].status = "failed" /\ reorder_tasks[t].progress < 75) =>
                  WrittenBy(t) = {})
    /\ [][\A t \in DOMAIN job :
            (job[t].kind = "reorder" /\ job[t].pc = "except" /\ job'[t].pc = "done")
                => docs' = docs]_vars

\* A failed reorder task at progress 75 whose first plan entry is still on
\* its document.
C36_Witness ==
    \E t \in DOMAIN job :
        /\ job[t].kind = "reorder" /\ job[t].pc = "done" /\ job[t].err = "KeyError"
        /\ reorder_tasks[t].status = "failed" /\ reorder_tasks[t].progress = 75
        /\ \E d \in WrittenBy(t) : docs[d].original_filename = AiName(t, 1)

\* ------------------------------------------ overlapping batch jobs of a project
\* AI-driven and client-driven jobs of project P1 run at the same time over
\* the same completed documents; no rename_document call is made.
OverlapNext ==
    \/ reorder_documents_with_ai("P1")
    \/ ReorderStep
    \/ \E changes \in WholeChangeMaps : process_documents_rename_reorder("P1", changes)
    \/ ChangesStep

OverlapSpec == RaceInit /\ [][OverlapNext]_vars

\* The four ordering fields the entry at hand of job t writes.
EntryFields(t) ==
    IF job[t].kind = "reorder"
    THEN LET i == job[t].idx
             e == job[t].ai_result.documents[i]
         IN  [id |-> e.id, display_order |-> e.new_order,
              original_filename |-> AiName(t, i), reorder_reasoning |-> AiName(t, i)]
    ELSE LET document == job[t].documents[job[t].idx]
             change == job[t].changes[document.id]
         IN  [id |-> document.id,
              display_order |-> IF change.newOrder = 0 THEN 1 ELSE change.newOrder,
              original_filename |-> IF change.hasName THEN ClientName(t, document.id)
                                    ELSE document.original_filename,
              reorder_reasoning |-> ClientName(t, document.id)]

\* C37: a step that changes a document is the update of one plan or map
\* entry of one job and sets display_order, original_filename,
\* reorder_reasoning and reordered_at together from that entry; so in every
\* interleaving a document's ordering fields are all set or all unset, and
\* its display_order and reorder_reasoning are those of one entry of one task.
C37_OrderingFieldsTogether ==
    /\ [](\A d \in DocIds :
            IF docs[d].reordered_at
            THEN /\ docs[d].display_order # 0
                 /\ docs[d].reorder_reasoning[1] \in {"ai", "client"}
                 /\ docs[d].reorder_reasoning[2] \in DOMAIN job
                 /\ job[docs[d].reorder_reasoning[2]].kind
                       = (IF docs[d].reorder_reasoning[1] = "ai" THEN "reorder" ELSE "changes")
            ELSE /\ docs[d].display_order = 0
                 /\ docs[d].reorder_reasoning = NoReason
                 /\ docs[d].original_filename = UploadName(d))
    /\ [][\A d \in DocIds :
            docs'[d] # docs[d] =>
                \E t \in DOMAIN job :
                    /\ job[t].pc = "apply" /\ job'[t] # job[t]
                    /\ EntryFields(t).id = d
                    /\ docs'[d] = [docs[d] EXCEPT
                                      !.display_order = EntryFields(t).display_order,
                                      !.original_filename = EntryFields(t).original_filename,
                                      !.reorder_reasoning = EntryFields(t).reorder_reasoning,
                                      !.reordered_at = TRUE]]_vars

\* A document written first by an AI-driven task and then by a client-driven
\* one: all four fields are the later task's.
C37_Witness ==
    \E d \in DocIds : \E t1, t2 \in DOMAIN job :
        /\ job[t1].kind = "reorder" /\ job[t2].kind = "changes"
        /\ reorder_tasks[t1].status = "completed"
        /\ \E i \in 1..Len(reorder_tasks[t1].result.documents) :
              reorder_tasks[t1].result.documents[i].id = d
        /\ docs[d].reorder_reasoning = ClientName(t2, d)
        /\ docs[d].original_filename = ClientName(t2, d)
        /\ docs[d].reordered_at

\* C38: every document gathered for a client-driven job has an entry in the
\* change map; the job keeps that list, handles each document of it once,
\* and when it completes result.processed_documents = result.total_documents
\* = the documents_count the enqueue call returned.
C38_AllGatheredProcessed ==
    /\ [](\A t \in DOMAIN job :
            (job[t].kind = "changes" /\ job[t].pc \notin {"idle", "done"}) =>
                /\ Gathered(t) \subseteq DOMAIN job[t].changes
                /\ Cardinality(Gathered(t)) = Len(job[t].documents)
                /\ job[t].processed_count <= Len(job[t].documents)
                /\ job[t].pc \in {"p75", "complete"} =>
                      job[t].processed_count = Len(job[t].documents))
    /\ [][\A t \in DOMAIN job :
            /\ (job[t].pc = "idle" /\ job'[t].kind = "changes") =>
                  /\ http'.task_id = t
                  /\ http'.documents_count = Len(job'[t].documents)
            /\ (job[t].kind = "changes" /\ job[t].pc # "done" /\ job'[t].pc # "done") =>
                  job'[t].documents = job[t].documents
            /\ (job[t].kind = "changes" /\ job[t].pc = "complete" /\ job'[t] # job[t]) =>
                  /\ process_tasks'[t].status = "completed"
                  /\ process_tasks'[t].result.processed_documents = Len(job[t].documents)
                  /\ process_tasks'[t].result.total_documents = Len(job[t].documents)]_vars

\* A completed client-driven task over every document, with the count the
\* enqueue call returned.
C38_Witness ==
    \E t \in DOMAIN job :
        /\ job[t].kind = "changes" /\ job[t].pc = "done"
        /\ process_tasks[t].status = "completed"
        /\ http.op = "process_documents_rename_reorder" /\ http.task_id = t
        /\ http.documents_count = MaxDocs
        /\ process_tasks[t].result.processed_documents = MaxDocs
        /\ process_tasks[t].result.total_documents = MaxDocs

\* ------------------------------------------------ the progress loop on its own
\* process_document_changes for total_docs gathered documents, each of them a
\* key of the change map (the enqueue gathers exactly the keys' documents):
\* only the progress writes are followed.

\* After the write of 25 (lines 992-1000): nothing processed yet.
ProgressInit ==
    /\ env \in [api_key : {TRUE}, llm_importable : {TRUE}]
    /\ calc \in [pc : {"loop"}, processed_count : {0}, total_docs : 1..MaxTotal,
                 progress : {25}]
    /\ docs = [d \in DocIds |-> AbsentDoc]
    /\ docjob = [d \in DocIds |-> IdleDocJob]
    /\ reorder_tasks = [t \in TaskIds |-> NoTask]
    /\ process_tasks = [t \in TaskIds |-> NoTask]
    /\ qa_tasks = [t \in TaskIds |-> NoTask]
    /\ job = [t \in TaskIds |-> IdleJob]
    /\ text = <<>>
    /\ parsed = NoData
    /\ http = NoResponse
    /\ rename = [r \in RenameIds |-> IdleRename]

\* One pass of the loop body (lines 1002-1029): the document is written,
\* processed_count is incremented and the computed progress is written.
ProgressDocument ==
    /\ calc.pc = "loop"
    /\ calc.processed_count < calc.total_docs
    /\ calc' = [calc EXCEPT !.processed_count = @ + 1,
                            !.progress = ChangesProgressValue(calc.processed_count + 1,
                                                              calc.total_docs)]
    /\ UNCHANGED <<env, docs, docjob, reorder_tasks, process_tasks, qa_tasks, job,
                   text, parsed, http, rename>>

\* The loop is over: the fixed write of 75 (lines 1031-1035).
ProgressFixed ==
    /\ calc.pc = "loop"
    /\ calc.processed_count = calc.total_docs
    /\ calc' = [calc EXCEPT !.pc = "p75", !.progress = 75]
    /\ UNCHANGED <<env, docs, docjob, reorder_tasks, process_tasks, qa_tasks, job,
                   text, parsed, http, rename>>

ProgressNext ==
    \/ ProgressDocument
    \/ ProgressFixed

ProgressSpec == ProgressInit /\ [][ProgressNext]_vars

\* C39: after the k-th of n documents of a client-driven job the progress
\* written is 25 + floor(50 * k / n).
C39_ProgressIsFloorOfQuotient ==
    (calc.pc = "loop" /\ calc.processed_count > 0)
        => calc.progress = 25 + ((50 * calc.processed_count) \div calc.total_docs)

\* The rest of C39: the value written never goes down from one document to
\* the next, stays within 25..75 and is 75 after the last document, so the
\* fixed write of 75 never lowers it.
C39_ProgressMonotoneTo75 ==
    /\ [](calc.pc # "idle" => calc.progress \in 25..75)
    /\ []((calc.pc = "loop" /\ calc.processed_count = calc.total_docs)
            => calc.progress = 75)
    /\ [][calc'.progress >= calc.progress]_vars

====
